---- MODULE Spec2Model ----
(***************************************************************************)
(* Model of the fm_radio DSP chain: IQ decimation (downsample_iq), FM and  *)
(* AM demodulation (demodulate_fm, demodulate_am), audio decimation        *)
(* (downsample_audio) and the PlutoSDR block pipeline (process_block).     *)
(*                                                                         *)
(* Number representation.  int16_t / int32_t values are integers kept in   *)
(* their width (Wrap16, Int32).  A float that holds an integer value is    *)
(* that integer, rounded to a 24-bit significand by ToFloat.  Phases and   *)
(* magnitudes are fixed point: Atan2 returns the angle rounded to the      *)
(* nearest multiple of pi/4 (pi = 4 units), Hypot the magnitude rounded to *)
(* the nearest unit.  The sign of a floating-point zero is kept through    *)
(* the complex product (SF values), because atan2 depends on it.  Audio    *)
(* outputs, accumulator * (gain / decim), are exact fractions <<n, d>>.    *)
(***************************************************************************)
EXTENDS Integers, Sequences, FiniteSets, TLC

VARIABLES
    iq_in,          \* downsample_iq: the raw block `in` handed to the call
    iq_decim,       \* downsample_iq: the argument `decim`
    iq_kernel,      \* which build's kernel ran last ("none" before a call)
    iq_buf,         \* the output vector of downsample_iq
    iq_oob,         \* TRUE when the last call read an element past the block
    demod_state,    \* DemodState.prev_iq
    fm_init,        \* the DemodState the stream started with
    fm_in_all,      \* every complex sample demodulate_fm has consumed so far
    fm_out_all,     \* the outputs of all demodulate_fm calls, concatenated
    fm_in,          \* the input block of the last demodulator call
    fm_pre,         \* DemodState and output vector on entry to the last call
    freq_buf,       \* the output vector of the last demodulator call
    fm_op,          \* the last demodulator call: "none", "fm" or "am"
    audio_state,    \* AudioDecimState: [accumulator, counter]
    audio_decim,    \* the stream's audio decimation factor
    audio_gain,     \* the stream's gain, a fraction <<n, d>>
    audio_src,      \* the sample source feeding the audio stream
    audio_in_all,   \* every sample downsample_audio has consumed so far
    audio_in,       \* the input block of the last downsample_audio call
    audio_pre,      \* AudioDecimState on entry to the last call
    audio_out,      \* the output vector of the last downsample_audio call
    audio_out_all,  \* the outputs of all downsample_audio calls, concatenated
    audio_resets,   \* AudioDecimState right after each emission of the last call
    raw_src,        \* pipeline: the pattern the device's raw stream repeats
    raw_all,        \* pipeline: all raw IQ elements handed to process_block
    raw_aligned,    \* pipeline: every block so far held whole groups only
    calls,          \* number of stage / pipeline calls made on the stream
    stage,          \* the part of the core the behaviour exercises
    iq_log,         \* the downsample_iq calls made on one output vector, in order
    iq_loop,        \* downsample_iq in progress: [pc, i] of its group loop
    streams,        \* two independent streams: stream id -> states and vectors
    drv,            \* the PlutoSDR object in run(): loop position, outputs
    udp             \* a UdpSender: its socket pointer, address, datagrams

vars == <<iq_in, iq_decim, iq_kernel, iq_buf, iq_oob,
          demod_state, fm_init, fm_in_all, fm_out_all, fm_in, fm_pre,
          freq_buf, fm_op,
          audio_state, audio_decim, audio_gain, audio_src, audio_in_all,
          audio_in, audio_pre, audio_out, audio_out_all, audio_resets,
          raw_src, raw_all, raw_aligned, calls,
          stage, iq_log, iq_loop, streams, drv, udp>>

iqVars    == <<iq_in, iq_decim, iq_kernel, iq_buf, iq_oob>>
fmVars    == <<demod_state, fm_init, fm_in_all, fm_out_all, fm_in, fm_pre,
               freq_buf, fm_op>>
audioVars == <<audio_state, audio_decim, audio_gain, audio_src, audio_in_all,
               audio_in, audio_pre, audio_out, audio_out_all, audio_resets>>
driverVars == <<drv, udp>>
chainVars == <<raw_src, raw_all, raw_aligned, driverVars>>
extVars   == <<stage, iq_log, iq_loop, streams>>

----------------------------------------------------------------------------
(* Bounds of the model *)

MaxRaw == 36          \* longest raw block handed to one downsample_iq call
MaxDecim == 17        \* largest IQ decimation factor tried
MaxIqCalls == 1       \* downsample_iq calls made on one raw block
MaxFmBlock == 2       \* longest block handed to one demodulator call
MaxFmTotal == 4       \* most samples demodulate_fm consumes on one stream
MaxAudioBlock == 4    \* longest block handed to one downsample_audio call
MaxAudioTotal == 7    \* most samples downsample_audio consumes on one stream
MaxAudioDecim == 3    \* largest audio decimation factor tried
MaxChainGroups == 3   \* most whole decimation groups in one pipeline block
MaxChainCalls == 3    \* process_block calls made on one stream
MaxAmBlock == 9       \* longest block handed to one demodulate_am call
MaxIqLog == 3         \* downsample_iq calls made one after the other on one vector
MaxStreamCalls == 4   \* stage calls made by the two streams together
MaxTotalRaw == 8      \* longest raw block whose group loop is followed
MaxTotalDecim == 3    \* largest decimation factor in the totality runs
MaxGrowth == 6        \* vector length at which a growing loop is no longer followed

(* Program constants *)

kIQComponents == 2
kNeonPairs == 8
kDecimIq == 10
kDecimAudio == 5

----------------------------------------------------------------------------
(* Generic helpers *)

Abs(x) == IF x < 0 THEN -x ELSE x

RECURSIVE GCD(_, _)
GCD(a, b) == IF b = 0 THEN Abs(a) ELSE GCD(b, a % b)

\* int16_t arithmetic (the NEON s16 lanes wrap): two's complement, 16 bits
Wrap16(x) == ((x + 32768) % 65536) - 32768

\* int32_t arithmetic: the sums of the model stay far inside 32 bits (a group
\* of decim pairs is bounded by decim * 32768), so the value is kept as is
Int32(x) == x

\* the spacing of floats around the magnitude a (24-bit significand)
RECURSIVE FloatUlp(_, _)
FloatUlp(a, p) == IF a \div p < 4096 * 4096 THEN p ELSE FloatUlp(a, 2 * p)

\* static_cast<float>(x) of an integer x: round to nearest, ties to even
ToFloat(x) ==
    LET a == Abs(x)
        p == FloatUlp(a, 1)
        q == a \div p
        r == a % p
        m == IF 2 * r > p \/ (2 * r = p /\ q % 2 = 1) THEN (q + 1) * p ELSE q * p
    IN  IF x < 0 THEN -m ELSE m

\* float + float on integer-valued floats
FloatAdd(a, b) == ToFloat(a + b)

\* a std::complex<float> with integer-valued parts
Complex(re, im) == [re |-> re, im |-> im]

----------------------------------------------------------------------------
(* downsample_iq *)

\* in[idx] for a 0-based idx; a read past the block is undefined behaviour
\* and yields the arbitrary value junk
Load(in, idx, junk) == IF idx < Len(in) THEN in[idx + 1] ELSE junk

\* n < static_cast<size_t>(x) for a size n and an int x: a negative x
\* converts to a value above every size
SizeLess(n, x) == IF x < 0 THEN TRUE ELSE n < x

\* the inner loop followed by a division by the group size: the mean of the
\* group (rounded towards zero here) in place of its sum
RECURSIVE ScalarGroup_mean(_, _, _, _, _, _)
ScalarGroup_mean(in, i, k, stride, si, sq) ==
    IF k < stride
    THEN ScalarGroup_mean(in, i, k + 2, stride,
                          FloatAdd(si, ToFloat(in[i + k + 1])),
                          FloatAdd(sq, ToFloat(in[i + k + 2])))
    ELSE LET n == stride \div 2
             mean(x) == IF x < 0 THEN -((-x) \div n) ELSE x \div n
         IN  Complex(mean(si), mean(sq))

\* scalar path, inner loop: for (k = 0; k < stride; k += 2)
RECURSIVE ScalarGroup(_, _, _, _, _, _)
ScalarGroup(in, i, k, stride, si, sq) ==
    IF k < stride
    THEN ScalarGroup(in, i, k + 2, stride,
                     FloatAdd(si, ToFloat(in[i + k + 1])),
                     FloatAdd(sq, ToFloat(in[i + k + 2])))
    ELSE Complex(si, sq)

\* ScalarLoop with the loop test i + stride < n: the last complete group of a
\* block that ends on a group border is dropped
RECURSIVE ScalarLoop_strict(_, _, _, _)
ScalarLoop_strict(in, i, stride, out) ==
    IF i + stride < Len(in)
    THEN ScalarLoop_strict(in, i + stride, stride,
                           Append(out, ScalarGroup(in, i, 0, stride, 0, 0)))
    ELSE out

\* ScalarLoop that also emits the sum of a trailing incomplete group
RECURSIVE ScalarLoop_partial(_, _, _, _)
ScalarLoop_partial(in, i, stride, out) ==
    IF i + stride <= Len(in)
    THEN ScalarLoop_partial(in, i + stride, stride,
                            Append(out, ScalarGroup(in, i, 0, stride, 0, 0)))
    ELSE IF i + 2 <= Len(in)
    THEN Append(out, ScalarGroup(in, i, 0, 2 * ((Len(in) - i) \div 2), 0, 0))
    ELSE out

\* scalar path, outer loop: for (i = 0; i + stride <= n; i += stride)
RECURSIVE ScalarLoop(_, _, _, _)
ScalarLoop(in, i, stride, out) ==
    IF i + stride <= Len(in)
    THEN ScalarLoop(in, i + stride, stride,
                    Append(out, ScalarGroup(in, i, 0, stride, 0, 0)))
    ELSE out

\* vld2q_s16(ptr): 16 consecutive int16, de-interleaved into two 8-lane vectors
Vld2q(in, ptr, junk) ==
    [val0 |-> [j \in 1..kNeonPairs |-> Load(in, ptr + 2 * (j - 1), junk)],
     val1 |-> [j \in 1..kNeonPairs |-> Load(in, ptr + 2 * (j - 1) + 1, junk)],
     oob  |-> ptr + 2 * kNeonPairs > Len(in)]

\* horizontal_sum_8 of src/src/dsp.cpp: widen to int32, then add
horizontal_sum_8(v) ==
    LET sum4 == [j \in 1..4 |-> Int32(v[j] + v[j + 4])]
        sum2 == <<Int32(sum4[1] + sum4[3]), Int32(sum4[2] + sum4[4])>>
        sum1 == <<Int32(sum2[1] + sum2[2]), Int32(sum2[1] + sum2[2])>>
    IN  sum1[1]

\* horizontal_sum_8 of src/dsp.cpp: two pairwise adds in int16, lane 0
horizontal_sum_8_root(v) ==
    LET sum4 == <<Wrap16(v[1] + v[2]), Wrap16(v[3] + v[4]),
                  Wrap16(v[5] + v[6]), Wrap16(v[7] + v[8])>>
        sum2 == <<Wrap16(sum4[1] + sum4[2]), Wrap16(sum4[3] + sum4[4]),
                  Wrap16(sum4[1] + sum4[2]), Wrap16(sum4[3] + sum4[4])>>
    IN  sum2[1]

\* NEON path of src/src/dsp.cpp: while (pairs_remaining >= 8)
RECURSIVE NeonChunks(_, _, _, _)
NeonChunks(in, block_ptr, pairs_remaining, acc) ==
    IF pairs_remaining >= kNeonPairs
    THEN LET iq == Vld2q(in, block_ptr, acc.junk)
         IN  NeonChunks(in, block_ptr + 2 * kNeonPairs,
                        pairs_remaining - kNeonPairs,
                        [acc EXCEPT !.si = Int32(@ + horizontal_sum_8(iq.val0)),
                                    !.sq = Int32(@ + horizontal_sum_8(iq.val1)),
                                    !.oob = @ \/ iq.oob,
                                    !.block_ptr = block_ptr + 2 * kNeonPairs,
                                    !.pairs_remaining = pairs_remaining - kNeonPairs])
    ELSE acc

\* NEON path of src/src/dsp.cpp: for (i = 0; i < pairs_remaining; i++)
RECURSIVE NeonTail(_, _, _)
NeonTail(in, i, acc) ==
    IF i < acc.pairs_remaining
    THEN NeonTail(in, i + 1,
                  [acc EXCEPT !.si = Int32(@ + Load(in, acc.block_ptr + i * 2, acc.junk)),
                              !.sq = Int32(@ + Load(in, acc.block_ptr + i * 2 + 1, acc.junk)),
                              !.oob = @ \/ (acc.block_ptr + i * 2 + 1 >= Len(in))])
    ELSE acc

\* NEON path of src/src/dsp.cpp: while (ptr < endptr)
RECURSIVE NeonLoop(_, _, _, _, _, _)
NeonLoop(in, ptr, endptr, decim, junk, r) ==
    IF ptr < endptr
    THEN LET acc0 == [si |-> 0, sq |-> 0, oob |-> FALSE, junk |-> junk,
                      block_ptr |-> ptr, pairs_remaining |-> decim]
             acc  == NeonTail(in, 0, NeonChunks(in, ptr, decim, acc0))
         IN  NeonLoop(in, ptr + decim * kIQComponents, endptr, decim, junk,
                      [out |-> Append(r.out, Complex(ToFloat(acc.si), ToFloat(acc.sq))),
                       oob |-> r.oob \/ acc.oob])
    ELSE r

\* NEON path of src/dsp.cpp: one load of 8 pairs and a tail of 2 pairs per
\* group, whatever decim is
RECURSIVE NeonRootLoop(_, _, _, _, _, _)
NeonRootLoop(in, ptr, endptr, decim, junk, r) ==
    IF ptr < endptr
    THEN LET iq   == Vld2q(in, ptr, junk)
             tail == ptr + 2 * kNeonPairs
             si   == Int32(horizontal_sum_8_root(iq.val0)
                            + Load(in, tail, junk) + Load(in, tail + 2, junk))
             sq   == Int32(horizontal_sum_8_root(iq.val1)
                            + Load(in, tail + 1, junk) + Load(in, tail + 3, junk))
         IN  NeonRootLoop(in, ptr + decim * kIQComponents, endptr, decim, junk,
                          [out |-> Append(r.out, Complex(ToFloat(si), ToFloat(sq))),
                           oob |-> r.oob \/ (tail + 3 >= Len(in))])
    ELSE r

\* the three kernels a build can select
Kernels == {"scalar", "neon", "neon_root"}

\* the kernels of src/src/dsp.cpp
CurrentKernels == {"scalar", "neon"}

\* downsample_iq that tests the block size before out.clear(): a block too
\* short for one group leaves the vector as it was
downsample_iq_lateclear(in, out, decim, kernel, junk) ==
    LET stride  == decim * kIQComponents
        cleared == SubSeq(out, 1, 0)
        blocks  == (Len(in) \div 2) \div decim
        start   == [out |-> cleared, oob |-> FALSE]
    IN  IF SizeLess(Len(in), stride)
        THEN [out |-> out, oob |-> FALSE]
        ELSE CASE kernel = "scalar" ->
                    [out |-> ScalarLoop(in, 0, stride, cleared), oob |-> FALSE]
               [] kernel = "neon" ->
                    NeonLoop(in, 0, blocks * stride, decim, junk, start)
               [] kernel = "neon_root" ->
                    NeonRootLoop(in, 0, blocks * stride, decim, junk, start)

\* downsample_iq(in, out, decim) as built with kernel; out is the vector's
\* content on entry.  Result: the vector on return and whether a read left
\* the block.
downsample_iq(in, out, decim, kernel, junk) ==
    LET stride  == decim * kIQComponents
        cleared == SubSeq(out, 1, 0)
        blocks  == (Len(in) \div 2) \div decim
        start   == [out |-> cleared, oob |-> FALSE]
    IN  IF SizeLess(Len(in), stride)
        THEN start
        ELSE CASE kernel = "scalar" ->
                    [out |-> ScalarLoop(in, 0, stride, cleared), oob |-> FALSE]
               [] kernel = "neon" ->
                    NeonLoop(in, 0, blocks * stride, decim, junk, start)
               [] kernel = "neon_root" ->
                    NeonRootLoop(in, 0, blocks * stride, decim, junk, start)

----------------------------------------------------------------------------
(* demodulate_fm, demodulate_am *)

\* a float with the sign of zero kept: <<sign, magnitude>>
SF(x) == <<IF x < 0 THEN -1 ELSE 1, Abs(x)>>

SFNeg(f) == <<-f[1], f[2]>>

SFMul(f, g) == <<f[1] * g[1], ToFloat(f[2] * g[2])>>

\* IEEE-754 addition, round to nearest: an exact zero sum is +0 unless both
\* operands are -0
SFAdd(f, g) ==
    LET v == f[1] * f[2] + g[1] * g[2]
    IN  IF v # 0 THEN SF(ToFloat(v))
        ELSE IF f[2] = 0 /\ g[2] = 0 /\ f[1] = -1 /\ g[1] = -1 THEN <<-1, 0>>
        ELSE <<1, 0>>

SFSub(f, g) == SFAdd(f, SFNeg(g))

\* a complex sample as a pair of sign-carrying floats
SFComplex(z) == [re |-> SF(z.re), im |-> SF(z.im)]

\* std::conj
conj(z) == [re |-> z.re, im |-> SFNeg(z.im)]

\* std::complex operator*: (a + bi)(c + di) = (ac - bd) + (ad + bc)i
ComplexMul(a, b) ==
    [re |-> SFSub(SFMul(a.re, b.re), SFMul(a.im, b.im)),
     im |-> SFAdd(SFMul(a.re, b.im), SFMul(a.im, b.re))]

\* std::atan2(y, x) in units of pi/4, rounded to the nearest unit.  The
\* octant borders are at tan(pi/8) = sqrt(2) - 1 and tan(3 pi/8) = sqrt(2) + 1.
\* atan2(+-0, +0 or x > 0) = +-0, atan2(+-0, -0 or x < 0) = +-pi.
Atan2(y, x) ==
    LET ay == y[2]
        ax == x[2]
        q  == IF ay = 0 THEN 0
              ELSE IF ax = 0 THEN 2
              ELSE IF (ay + ax) * (ay + ax) < 2 * ax * ax THEN 0
              ELSE IF ay > ax /\ (ay - ax) * (ay - ax) > 2 * ax * ax THEN 2
              ELSE 1
        a  == IF x[1] = 1 THEN q ELSE 4 - q
    IN  y[1] * a

\* the phase of sample * conj(prev)
PhaseStep(sample, prev) ==
    LET prod == ComplexMul(SFComplex(sample), conj(SFComplex(prev)))
    IN  Atan2(prod.im, prod.re)

\* std::vector<float>::resize(n): keep the first n elements, pad with 0
Resize(out, n) == [i \in 1..n |-> IF i <= Len(out) THEN out[i] ELSE 0]

\* demodulate_fm: for (const auto& sample : in)
RECURSIVE FmLoop(_, _, _, _)
FmLoop(in, i, out, state) ==
    IF i <= Len(in)
    THEN FmLoop(in, i + 1,
                [out EXCEPT ![i] = PhaseStep(in[i], state.prev_iq)],
                [state EXCEPT !.prev_iq = in[i]])
    ELSE [out |-> out, state |-> state]

\* demodulate_fm that tracks the previous sample in a local copy and never
\* writes it back to the DemodState
demodulate_fm_local(in, out, state) ==
    [out |-> FmLoop(in, 1, Resize(out, Len(in)), state).out, state |-> state]

\* demodulate_fm that forgets out.resize(in.size())
demodulate_fm_noresize(in, out, state) ==
    LET r == FmLoop(in, 1, Resize(out, Len(in)), state)
    IN  [out |-> IF Len(out) > Len(in) THEN r.out \o SubSeq(out, Len(in) + 1, Len(out))
                 ELSE r.out,
         state |-> r.state]

\* demodulate_fm that restores the DemodState after an empty or one-sample
\* block and otherwise keeps the first sample of the block
demodulate_fm_first(in, out, state) ==
    LET r == FmLoop(in, 1, Resize(out, Len(in)), state)
    IN  [out |-> r.out,
         state |-> IF Len(in) = 0 THEN state ELSE [state EXCEPT !.prev_iq = in[1]]]

\* demodulate_fm(in, out, state): the vector and the state on return
demodulate_fm(in, out, state) == FmLoop(in, 1, Resize(out, Len(in)), state)

\* the integer nearest to sqrt(n)
RECURSIVE RoundSqrt(_, _)
RoundSqrt(n, r) ==
    IF 4 * n < (2 * r + 1) * (2 * r + 1) THEN r ELSE RoundSqrt(n, r + 1)

\* std::abs(std::complex<float>)
Hypot(z) == RoundSqrt(z.re * z.re + z.im * z.im, 0)

\* demodulate_am, scalar path: for (auto& s : in) out.push_back(std::abs(s))
RECURSIVE AmLoop(_, _, _)
AmLoop(in, i, out) ==
    IF i <= Len(in) THEN AmLoop(in, i + 1, Append(out, Hypot(in[i]))) ELSE out

\* demodulate_am without out.clear(): the magnitudes are appended
demodulate_am_noclear(in, out) == AmLoop(in, 1, out)

\* demodulate_am(in, out): the vector on return
demodulate_am(in, out) == AmLoop(in, 1, SubSeq(out, 1, 0))

\* one lane of vsqrtq_f32(vaddq_f32(vmulq_f32(i, i), vmulq_f32(q, q)))
NeonMag(z) == RoundSqrt(FloatAdd(ToFloat(z.re * z.re), ToFloat(z.im * z.im)), 0)

\* vector path of src/src/dsp.cpp: for (; i + 4 <= count; i += 4), the four
\* magnitudes stored into the four elements the resize has added
RECURSIVE AmNeonGroups(_, _, _)
AmNeonGroups(in, i, out) ==
    IF i + 4 <= Len(in)
    THEN LET old_size == Len(out)
             grown    == Resize(out, old_size + 4)
         IN  AmNeonGroups(in, i + 4,
                 [k \in 1..Len(grown) |->
                     IF k > old_size THEN NeonMag(in[i + (k - old_size)])
                     ELSE grown[k]])
    ELSE [i |-> i, out |-> out]

\* vector path of src/dsp.cpp: vst1q_f32(&out.emplace_back(), mag).  The
\* vector grows by one element per group of four; the first magnitude lands
\* in it, the other three are stored behind the end of the vector, in the
\* capacity the reserve has set aside, where the next emplace_back or
\* push_back overwrites them
RECURSIVE AmNeonRootGroups(_, _, _)
AmNeonRootGroups(in, i, out) ==
    IF i + 4 <= Len(in)
    THEN AmNeonRootGroups(in, i + 4, Append(out, NeonMag(in[i + 1])))
    ELSE [i |-> i, out |-> out]

\* both vector paths: for (; i < count; i++) out.push_back(std::abs(in[i]))
RECURSIVE AmLeftovers(_, _, _)
AmLeftovers(in, i, out) ==
    IF i < Len(in) THEN AmLeftovers(in, i + 1, Append(out, Hypot(in[i + 1])))
    ELSE out

\* demodulate_am as built from src/src/dsp.cpp with the vector path
demodulate_am_neon(in, out) ==
    LET g == AmNeonGroups(in, 0, SubSeq(out, 1, 0))
    IN  AmLeftovers(in, g.i, g.out)

\* demodulate_am as built from src/dsp.cpp with the vector path
demodulate_am_neon_root(in, out) ==
    LET g == AmNeonRootGroups(in, 0, SubSeq(out, 1, 0))
    IN  AmLeftovers(in, g.i, g.out)

----------------------------------------------------------------------------
(* downsample_audio *)

\* the fraction n / d in lowest terms, d > 0
Frac(n, d) ==
    LET g == GCD(n, d)
        sgn == IF d < 0 THEN -1 ELSE 1
    IN  <<sgn * (n \div g), sgn * (d \div g)>>

\* AudioDecimState as default-constructed
AudioDecimStateInit == [accumulator |-> 0, counter |-> 0]

\* DemodState as default-constructed
DemodStateInit == [prev_iq |-> Complex(0, 0)]

\* the loop body with the test state.counter++ == decim: the old counter is
\* compared, so a window closes one sample late
AudioStep_postinc(r, v, decim, scale) ==
    LET acc == FloatAdd(r.state.accumulator, v)
        cnt == r.state.counter + 1
    IN  IF r.state.counter = decim
        THEN [out    |-> Append(r.out, Frac(acc * scale[1], scale[2])),
              state  |-> [accumulator |-> 0, counter |-> 0],
              resets |-> Append(r.resets, [accumulator |-> 0, counter |-> 0])]
        ELSE [r EXCEPT !.state = [accumulator |-> acc, counter |-> cnt]]

\* the loop body without state.accumulator = 0.0f after an emission
AudioStep_keepsum(r, v, decim, scale) ==
    LET acc == FloatAdd(r.state.accumulator, v)
        cnt == r.state.counter + 1
    IN  IF cnt = decim
        THEN [out    |-> Append(r.out, Frac(acc * scale[1], scale[2])),
              state  |-> [accumulator |-> acc, counter |-> 0],
              resets |-> Append(r.resets, [accumulator |-> acc, counter |-> 0])]
        ELSE [r EXCEPT !.state = [accumulator |-> acc, counter |-> cnt]]

\* downsample_audio, loop body for one sample v:
\*   state.accumulator += v;
\*   if (++state.counter == decim) { push_back(accumulator * scale); reset }
AudioStep(r, v, decim, scale) ==
    LET acc == FloatAdd(r.state.accumulator, v)
        cnt == r.state.counter + 1
    IN  IF cnt = decim
        THEN [out    |-> Append(r.out, Frac(acc * scale[1], scale[2])),
              state  |-> [accumulator |-> 0, counter |-> 0],
              resets |-> Append(r.resets, [accumulator |-> 0, counter |-> 0])]
        ELSE [r EXCEPT !.state = [accumulator |-> acc, counter |-> cnt]]

\* downsample_audio: for (float v : in)
RECURSIVE AudioLoop(_, _, _, _, _)
AudioLoop(in, i, decim, scale, r) ==
    IF i <= Len(in)
    THEN AudioLoop(in, i + 1, decim, scale, AudioStep(r, in[i], decim, scale))
    ELSE r

\* scale = 1 / decim: the gain is ignored
AudioScale_nogain(gain, decim) == Frac(1, decim)

\* scale = gain alone: the division by decim is forgotten
AudioScale_nodiv(gain, decim) == Frac(gain[1], gain[2])

\* const float scale = gain / static_cast<float>(decim)
AudioScale(gain, decim) == Frac(gain[1], gain[2] * decim)

\* downsample_audio that starts every call on a fresh window
downsample_audio_restart(in, out, decim, state, gain) ==
    AudioLoop(in, 1, decim, AudioScale(gain, decim),
              [out |-> SubSeq(out, 1, 0), state |-> AudioDecimStateInit,
               resets |-> << >>])

\* downsample_audio(in, out, decim, state, gain): the vector and the state on
\* return, and the state right after each emission
downsample_audio(in, out, decim, state, gain) ==
    AudioLoop(in, 1, decim, AudioScale(gain, decim),
              [out |-> SubSeq(out, 1, 0), state |-> state, resets |-> << >>])

----------------------------------------------------------------------------
(* PlutoSDR::process_block *)

\* the default audio gain of the PlutoSDR constructor, 0.3f
kDefaultAudioGain == <<3, 10>>

\* the DSP members of a PlutoSDR object
PipelineState(iq, freq, demod, audio, gain, out) ==
    [iq_buf_ |-> iq, freq_buf_ |-> freq, demod_state_ |-> demod,
     audio_state_ |-> audio, audio_gain_ |-> gain, audio_out |-> out]

\* the members as constructed; the two work vectors are created zero-filled
\* (one element stands for the constructor's kBufferSize / kDecimIq + 64)
PipelineInit ==
    PipelineState(<<Complex(0, 0)>>, <<0>>, DemodStateInit,
                  AudioDecimStateInit, kDefaultAudioGain, << >>)

\* process_block with a DemodState local to the call
process_block_fresh(raw, st, kernel) ==
    LET iq == downsample_iq(raw, st.iq_buf_, kDecimIq, kernel, 0).out
        fm == demodulate_fm(iq, st.freq_buf_, DemodStateInit)
        au == downsample_audio(fm.out, st.audio_out, kDecimAudio,
                               st.audio_state_, st.audio_gain_)
    IN  PipelineState(iq, fm.out, fm.state, au.state, st.audio_gain_, au.out)

\* process_block with an AudioDecimState local to the call
process_block_freshaudio(raw, st, kernel) ==
    LET iq == downsample_iq(raw, st.iq_buf_, kDecimIq, kernel, 0).out
        fm == demodulate_fm(iq, st.freq_buf_, st.demod_state_)
        au == downsample_audio(fm.out, st.audio_out, kDecimAudio,
                               AudioDecimStateInit, st.audio_gain_)
    IN  PipelineState(iq, fm.out, fm.state, au.state, st.audio_gain_, au.out)

\* process_block(raw, audio_out): the three stages in sequence on the
\* object's vectors and states
process_block(raw, st, kernel) ==
    LET iq == downsample_iq(raw, st.iq_buf_, kDecimIq, kernel, 0).out
        fm == demodulate_fm(iq, st.freq_buf_, st.demod_state_)
        au == downsample_audio(fm.out, st.audio_out, kDecimAudio,
                               st.audio_state_, st.audio_gain_)
    IN  PipelineState(iq, fm.out, fm.state, au.state, st.audio_gain_, au.out)

----------------------------------------------------------------------------
(* Inputs of the model *)

\* int16_t component values: the two extremes and a small value
IQVals == {-32768, 1, 32767}

\* what a read past the end of the block may return
JunkVals == {0, 32767}

\* raw blocks repeat a three-element pattern, so that the I and the Q values
\* of neighbouring pairs differ
Patterns(vals) == [1..3 -> vals]

RawBlock(pat, len) == [i \in 1..len |-> pat[((i - 1) % 3) + 1]]

FmIdle ==
    /\ demod_state = DemodStateInit
    /\ fm_init = DemodStateInit
    /\ fm_in_all = << >>
    /\ fm_out_all = << >>
    /\ fm_in = << >>
    /\ fm_pre = [state |-> DemodStateInit, out |-> << >>]
    /\ freq_buf = << >>
    /\ fm_op = "none"

AudioIdle ==
    /\ audio_state = AudioDecimStateInit
    /\ audio_decim = 1
    /\ audio_gain = <<1, 1>>
    /\ audio_src = [pat |-> <<0, 0, 0>>, ramp |-> 0]
    /\ audio_in_all = << >>
    /\ audio_in = << >>
    /\ audio_pre = AudioDecimStateInit
    /\ audio_out = << >>
    /\ audio_out_all = << >>
    /\ audio_resets = << >>

IqIdle ==
    /\ iq_in = << >>
    /\ iq_decim = 1
    /\ iq_kernel = "none"
    /\ iq_buf = << >>
    /\ iq_oob = FALSE

\* no driver loop running, no sender constructed
DriverIdle ==
    /\ drv = [pc |-> "none"]
    /\ udp = [alive |-> FALSE]

ChainIdle ==
    /\ raw_src = <<0, 0, 0>>
    /\ raw_all = << >>
    /\ raw_aligned = TRUE
    /\ DriverIdle

\* no call log, no call in progress, no second stream
ExtIdle ==
    /\ iq_log = << >>
    /\ iq_loop = [pc |-> "idle", i |-> 0]
    /\ streams = << >>

----------------------------------------------------------------------------
(* SpecIq: one raw block and one decimation factor, decimated by each of   *)
(* the kernels a build can select                                          *)

InitIq ==
    /\ \E pat \in Patterns(IQVals), len \in 0..MaxRaw :
           iq_in = RawBlock(pat, len)
    /\ iq_decim \in 1..MaxDecim
    /\ iq_kernel = "none"
    /\ iq_buf = << >>
    /\ iq_oob = FALSE
    /\ FmIdle /\ AudioIdle /\ ChainIdle /\ ExtIdle
    /\ stage = "iq"
    /\ calls = 0

CallDownsampleIq(kernel, junk) ==
    LET r == downsample_iq(iq_in, iq_buf, iq_decim, kernel, junk)
    IN  /\ calls < MaxIqCalls
        /\ iq_buf' = r.out
        /\ iq_oob' = r.oob
        /\ iq_kernel' = kernel
        /\ calls' = calls + 1
        /\ UNCHANGED <<iq_in, iq_decim, fmVars, audioVars, chainVars, extVars>>

DownsampleIqScalar == CallDownsampleIq("scalar", 0)

DownsampleIqNeon == \E junk \in JunkVals : CallDownsampleIq("neon", junk)

DownsampleIqNeonRoot == \E junk \in JunkVals : CallDownsampleIq("neon_root", junk)

NextIq == DownsampleIqScalar \/ DownsampleIqNeon \/ DownsampleIqNeonRoot

SpecIq == InitIq /\ [][NextIq]_vars

----------------------------------------------------------------------------
(* SpecFm: one stream demodulated block by block.  Blocks of any size up   *)
(* to MaxFmBlock go to demodulate_fm with the stream's DemodState; the     *)
(* stateless demodulate_am may run on the same block afterwards.           *)

\* complex samples: the zero sample, the axes and the third quadrant
CVals == {Complex(0, 0), Complex(1, 0), Complex(0, 1), Complex(-1, -1)}

RECURSIVE SeqsUpTo(_, _)
SeqsUpTo(S, n) ==
    IF n = 0 THEN {<< >>}
    ELSE LET shorter == SeqsUpTo(S, n - 1)
         IN  shorter \cup {Append(q, x) : q \in {t \in shorter : Len(t) = n - 1}, x \in S}

FmBlocks == SeqsUpTo(CVals, MaxFmBlock)

InitFm ==
    /\ demod_state \in {[prev_iq |-> c] : c \in CVals}
    /\ fm_init = demod_state
    /\ fm_in_all = << >>
    /\ fm_out_all = << >>
    /\ fm_in = << >>
    /\ fm_pre = [state |-> demod_state, out |-> << >>]
    /\ freq_buf = << >>
    /\ fm_op = "none"
    /\ IqIdle /\ AudioIdle /\ ChainIdle /\ ExtIdle
    /\ stage = "fm"
    /\ calls = 0

DemodulateFm ==
    \E in \in FmBlocks :
        LET r == demodulate_fm(in, freq_buf, demod_state)
        IN  /\ Len(fm_in_all) + Len(in) <= MaxFmTotal
            /\ freq_buf' = r.out
            /\ demod_state' = r.state
            /\ fm_in' = in
            /\ fm_pre' = [state |-> demod_state, out |-> freq_buf]
            /\ fm_in_all' = fm_in_all \o in
            /\ fm_out_all' = fm_out_all \o r.out
            /\ fm_op' = "fm"
            /\ UNCHANGED <<fm_init, iqVars, audioVars, chainVars, calls,
                           extVars>>

\* the envelope demodulator run on the block the stream holds
DemodulateAm ==
    /\ fm_op = "fm"
    /\ freq_buf' = demodulate_am(fm_in, freq_buf)
    /\ fm_pre' = [state |-> demod_state, out |-> freq_buf]
    /\ fm_op' = "am"
    /\ UNCHANGED <<demod_state, fm_init, fm_in_all, fm_out_all, fm_in,
                   iqVars, audioVars, chainVars, calls, extVars>>

NextFm == DemodulateFm \/ DemodulateAm

SpecFm == InitFm /\ [][NextFm]_vars

----------------------------------------------------------------------------
(* SpecAudio: one stream of demodulated samples decimated block by block   *)
(* with one AudioDecimState, a fixed factor and a fixed gain               *)

AudioVals == {-1, 0, 2}

\* the stream's samples: a repeating pattern, or the ramp 1, 2, 3, ...
AudioSources ==
    {[pat |-> p, ramp |-> 0] : p \in Patterns(AudioVals)}
        \cup {[pat |-> <<0, 0, 0>>, ramp |-> 1]}

\* sample number p (1-based) of the stream
AudioSample(src, p) == src.pat[((p - 1) % 3) + 1] + src.ramp * p

\* gains as fractions: 1, 2 and the driver's default 0.3
Gains == {<<1, 1>>, <<2, 1>>, <<3, 10>>}

InitAudio ==
    /\ audio_state = AudioDecimStateInit
    /\ audio_decim \in 1..MaxAudioDecim
    /\ audio_gain \in Gains
    /\ audio_src \in AudioSources
    /\ audio_in_all = << >>
    /\ audio_in = << >>
    /\ audio_pre = AudioDecimStateInit
    /\ audio_out = << >>
    /\ audio_out_all = << >>
    /\ audio_resets = << >>
    /\ IqIdle /\ FmIdle /\ ChainIdle /\ ExtIdle
    /\ stage = "audio"
    /\ calls = 0

DownsampleAudio ==
    \E len \in 0..MaxAudioBlock :
        LET pos == Len(audio_in_all)
            in  == [i \in 1..len |-> AudioSample(audio_src, pos + i)]
            r   == downsample_audio(in, audio_out, audio_decim, audio_state,
                                    audio_gain)
        IN  /\ pos + len <= MaxAudioTotal
            /\ audio_out' = r.out
            /\ audio_state' = r.state
            /\ audio_resets' = r.resets
            /\ audio_in' = in
            /\ audio_pre' = audio_state
            /\ audio_in_all' = audio_in_all \o in
            /\ audio_out_all' = audio_out_all \o r.out
            /\ UNCHANGED <<audio_decim, audio_gain, audio_src,
                           iqVars, fmVars, chainVars, calls, extVars>>

NextAudio == DownsampleAudio

SpecAudio == InitAudio /\ [][NextAudio]_vars


----------------------------------------------------------------------------
(* SpecStages: the stages that clear their output vector, each called      *)
(* again and again on one vector with changing input blocks.  A behaviour  *)
(* exercises one stage: demodulate_am, downsample_iq or downsample_audio.  *)

\* complex samples for the envelope demodulator
AmVals == {Complex(3, 4), Complex(0, 0), Complex(-5, 12), Complex(1, 1)}

\* blocks repeat one of these three-sample patterns
AmPatterns ==
    {<<Complex(3, 4), Complex(0, 0), Complex(-5, 12)>>,
     <<Complex(1, 1), Complex(3, 4), Complex(3, 4)>>,
     <<Complex(0, 0), Complex(-5, 12), Complex(1, 1)>>}

AmBlocks == {[i \in 1..len |-> pat[((i - 1) % 3) + 1]] :
                 pat \in AmPatterns, len \in 0..MaxAmBlock}

\* what the caller's vector may hold before the first call
PriorFloats == {<< >>, <<99, 88>>}

InitStagesAm ==
    /\ stage = "am"
    /\ demod_state = DemodStateInit
    /\ fm_init = DemodStateInit
    /\ fm_in_all = << >>
    /\ fm_out_all = << >>
    /\ fm_in = << >>
    /\ freq_buf \in PriorFloats
    /\ fm_pre = [state |-> DemodStateInit, out |-> freq_buf]
    /\ fm_op = "none"
    /\ IqIdle /\ AudioIdle /\ ChainIdle /\ ExtIdle
    /\ calls = 0

\* one demodulate_am call of the build named by op
CallDemodulateAm(op, out) ==
    /\ stage = "am"
    /\ freq_buf' = out
    /\ fm_pre' = [state |-> demod_state, out |-> freq_buf]
    /\ fm_op' = op
    /\ UNCHANGED <<demod_state, fm_init, fm_in_all, fm_out_all,
                   iqVars, audioVars, chainVars, calls, extVars>>

DemodulateAmScalar ==
    \E in \in AmBlocks :
        fm_in' = in /\ CallDemodulateAm("am", demodulate_am(in, freq_buf))

DemodulateAmNeon ==
    \E in \in AmBlocks :
        fm_in' = in /\ CallDemodulateAm("am_neon", demodulate_am_neon(in, freq_buf))

DemodulateAmNeonRoot ==
    \E in \in AmBlocks :
        fm_in' = in
        /\ CallDemodulateAm("am_neon_root", demodulate_am_neon_root(in, freq_buf))

\* raw blocks for the calls made one after the other on one vector: the
\* empty block, a lone component, two pairs and a dangling component,
\* eleven pairs
IqStreamLens == {0, 1, 5, 22}

IqStreamPatterns == {<<1, -2, 3>>, <<32767, -32768, 5>>}

IqStreamBlocks ==
    {RawBlock(pat, len) : pat \in IqStreamPatterns, len \in IqStreamLens}

IqStreamDecims == {2, 9}

\* what the caller's sample vector may hold before the first call
PriorSamples == {<< >>, <<Complex(99, 99)>>}

InitStagesIq ==
    /\ stage = "iq"
    /\ iq_kernel \in CurrentKernels
    /\ iq_in = << >>
    /\ iq_decim = 1
    /\ iq_buf \in PriorSamples
    /\ iq_oob = FALSE
    /\ iq_log = << >>
    /\ iq_loop = [pc |-> "idle", i |-> 0]
    /\ streams = << >>
    /\ FmIdle /\ AudioIdle /\ ChainIdle
    /\ calls = 0

\* one more downsample_iq call on the vector, with any block and factor
DownsampleIqBlock ==
    \E in \in IqStreamBlocks, decim \in IqStreamDecims :
        LET r == downsample_iq(in, iq_buf, decim, iq_kernel, 0)
        IN  /\ stage = "iq"
            /\ Len(iq_log) < MaxIqLog
            /\ iq_in' = in
            /\ iq_decim' = decim
            /\ iq_buf' = r.out
            /\ iq_oob' = r.oob
            /\ iq_log' = Append(iq_log, [in |-> in, decim |-> decim,
                                         pre |-> iq_buf, out |-> r.out,
                                         oob |-> r.oob])
            /\ UNCHANGED <<iq_kernel, fmVars, audioVars, chainVars, calls,
                           stage, iq_loop, streams>>

\* the audio stream of the ClearsOutput test: the ramp 1, 2, 3, ... with
\* N = 2 and gain 1, into a vector that may hold something
InitStagesAudio ==
    /\ stage = "audio"
    /\ audio_state = AudioDecimStateInit
    /\ audio_decim = 2
    /\ audio_gain = <<1, 1>>
    /\ audio_src = [pat |-> <<0, 0, 0>>, ramp |-> 1]
    /\ audio_in_all = << >>
    /\ audio_in = << >>
    /\ audio_pre = AudioDecimStateInit
    /\ audio_out \in PriorFloats
    /\ audio_out_all = << >>
    /\ audio_resets = << >>
    /\ IqIdle /\ FmIdle /\ ChainIdle /\ ExtIdle
    /\ calls = 0

DownsampleAudioBlock == stage = "audio" /\ DownsampleAudio

InitStages == InitStagesAm \/ InitStagesIq \/ InitStagesAudio

NextStages ==
    \/ DemodulateAmScalar
    \/ DemodulateAmNeon
    \/ DemodulateAmNeonRoot
    \/ DownsampleIqBlock
    \/ DownsampleAudioBlock

SpecStages == InitStages /\ [][NextStages]_vars

----------------------------------------------------------------------------
(* SpecStreams: two streams, each with its own DemodState, AudioDecimState *)
(* and output vectors, whose stage calls are interleaved in any order      *)

StreamIds == {1, 2}

\* the audio decimation factor and the gain of each stream
StreamDecims == <<2, 3>>

StreamGains == <<(<<1, 1>>), (<<3, 10>>)>>

\* a stream before its first call
StreamInit(s) ==
    [demod |-> DemodStateInit, audio |-> AudioDecimStateInit,
     freq |-> << >>, aout |-> << >>,
     decim |-> StreamDecims[s], gain |-> StreamGains[s],
     fm_out_all |-> << >>, audio_out_all |-> << >>, log |-> << >>]

\* blocks for the demodulators and for downsample_audio
StreamIqBlocks == {<<Complex(1, 0)>>, <<Complex(0, 1), Complex(-1, -1)>>}

StreamAudioBlocks == {<<1>>, <<2, -1>>}

\* the state objects stream s would use if the core kept one process-wide
\* state: those of stream 1
StateOf_shared(s) == 1

\* the stream whose DemodState and AudioDecimState a call of stream s is
\* handed: its own
StateOf(s) == s

\* one stage call on the vectors of out, with the state objects of own.
\* Result: the vectors, the states and the streams' accumulated outputs.
StageCall(call, out, own) ==
    CASE call.op = "fm" ->
             LET r == demodulate_fm(call.in, out.freq, own.demod)
             IN  [freq |-> r.out, aout |-> out.aout, demod |-> r.state,
                  audio |-> own.audio,
                  fm_out_all |-> out.fm_out_all \o r.out,
                  audio_out_all |-> out.audio_out_all]
      [] call.op = "am" ->
             [freq |-> demodulate_am(call.in, out.freq), aout |-> out.aout,
              demod |-> own.demod, audio |-> own.audio,
              fm_out_all |-> out.fm_out_all,
              audio_out_all |-> out.audio_out_all]
      [] call.op = "audio" ->
             LET r == downsample_audio(call.in, out.aout, out.decim, own.audio,
                                       out.gain)
             IN  [freq |-> out.freq, aout |-> r.out, demod |-> own.demod,
                  audio |-> r.state,
                  fm_out_all |-> out.fm_out_all,
                  audio_out_all |-> out.audio_out_all \o r.out]

InitStreams ==
    /\ stage = "streams"
    /\ streams = [s \in StreamIds |-> StreamInit(s)]
    /\ iq_log = << >>
    /\ iq_loop = [pc |-> "idle", i |-> 0]
    /\ IqIdle /\ FmIdle /\ AudioIdle /\ ChainIdle
    /\ calls = 0

\* stream s makes the call: the states go back to the objects they came from
StreamCall(s, call) ==
    LET o == StateOf(s)
        r == StageCall(call, streams[s], streams[o])
    IN  /\ calls < MaxStreamCalls
        /\ calls' = calls + 1
        /\ streams' =
               [t \in StreamIds |->
                   LET st1 == IF t = o
                              THEN [streams[t] EXCEPT !.demod = r.demod,
                                                      !.audio = r.audio]
                              ELSE streams[t]
                   IN  IF t = s
                       THEN [st1 EXCEPT !.freq = r.freq, !.aout = r.aout,
                                        !.fm_out_all = r.fm_out_all,
                                        !.audio_out_all = r.audio_out_all,
                                        !.log = Append(@, [call |-> call,
                                                           seq |-> calls])]
                       ELSE st1]
        /\ UNCHANGED <<iqVars, fmVars, audioVars, chainVars, stage, iq_log,
                       iq_loop>>

StreamDemodulateFm ==
    \E s \in StreamIds, in \in StreamIqBlocks :
        StreamCall(s, [op |-> "fm", in |-> in])

StreamDemodulateAm ==
    \E s \in StreamIds, in \in StreamIqBlocks :
        StreamCall(s, [op |-> "am", in |-> in])

StreamDownsampleAudio ==
    \E s \in StreamIds, in \in StreamAudioBlocks :
        StreamCall(s, [op |-> "audio", in |-> in])

NextStreams == StreamDemodulateFm \/ StreamDemodulateAm \/ StreamDownsampleAudio

SpecStreams == InitStreams /\ [][NextStreams]_vars

----------------------------------------------------------------------------
(* SpecTotal: downsample_iq followed through its group loop, one iteration *)
(* a step, and downsample_audio, for every kind of value the parameter     *)
(* int decim can take: negative, zero, positive.  A behaviour follows one  *)
(* of the two functions.                                                   *)

\* values of the parameter int decim
TotalDecims == (-1)..MaxTotalDecim

TotalPatterns == {<<1, -2, 3>>, <<32767, -32768, 5>>}

\* the stride computed with no components per pair: it does not advance
Stride_zero == iq_decim * 0

\* const int stride = decim * kIQComponents
Stride == iq_decim * kIQComponents

\* endptr of the NEON path, as an index: blocks * stride.  The division
\* total_pairs / decim by a zero decim is undefined; where it does not trap
\* it yields 0 (the AArch64 divide instruction), and stride is 0 anyway
NeonEnd ==
    IF iq_decim = 0 THEN 0 ELSE ((Len(iq_in) \div 2) \div iq_decim) * Stride

\* the test of the group loop: i + stride <= n, or ptr < endptr
LoopTest ==
    IF iq_kernel = "scalar" THEN iq_loop.i + Stride <= Len(iq_in)
    ELSE iq_loop.i < NeonEnd

\* the sample one iteration of the group loop emits
LoopGroup ==
    IF iq_kernel = "scalar"
    THEN ScalarGroup(iq_in, iq_loop.i, 0, Stride, 0, 0)
    ELSE NeonLoop(iq_in, iq_loop.i, iq_loop.i + 1, iq_decim, 0,
                  [out |-> << >>, oob |-> FALSE]).out[1]

InitTotalIq ==
    /\ stage = "total_iq"
    /\ iq_kernel \in CurrentKernels
    /\ \E pat \in TotalPatterns, len \in 0..MaxTotalRaw :
           iq_in = RawBlock(pat, len)
    /\ iq_decim \in TotalDecims
    /\ iq_buf \in PriorSamples
    /\ iq_oob = FALSE
    /\ iq_log = << >>
    /\ iq_loop = [pc |-> "idle", i |-> 0]
    /\ streams = << >>
    /\ FmIdle /\ AudioIdle /\ ChainIdle
    /\ calls = 0

\* entry of downsample_iq: out.clear(), the size test, and the division that
\* sizes the reserve (n / stride in the scalar path, total_pairs / decim in
\* the NEON path).  A division by zero is undefined: it traps (SIGFPE on
\* x86) or yields a value and the function goes on to the loop.
IqEnter ==
    /\ stage = "total_iq"
    /\ iq_loop.pc = "idle"
    /\ iq_buf' = SubSeq(iq_buf, 1, 0)
    /\ IF SizeLess(Len(iq_in), Stride)
       THEN iq_loop' = [pc |-> "returned", i |-> 0]
       ELSE IF iq_decim = 0
       THEN iq_loop' \in {[pc |-> "fault", i |-> 0], [pc |-> "loop", i |-> 0]}
       ELSE iq_loop' = [pc |-> "loop", i |-> 0]
    /\ UNCHANGED <<iq_in, iq_decim, iq_kernel, iq_oob, fmVars, audioVars,
                   chainVars, calls, stage, iq_log, streams>>

\* one iteration of the group loop: emit a sample, advance by stride.  The
\* model stops following a vector that has grown to MaxGrowth elements.
IqIterate ==
    /\ stage = "total_iq"
    /\ iq_loop.pc = "loop"
    /\ LoopTest
    /\ Len(iq_buf) < MaxGrowth
    /\ iq_buf' = Append(iq_buf, LoopGroup)
    /\ iq_loop' = [iq_loop EXCEPT !.i = @ + Stride]
    /\ UNCHANGED <<iq_in, iq_decim, iq_kernel, iq_oob, fmVars, audioVars,
                   chainVars, calls, stage, iq_log, streams>>

\* the loop test fails: the function returns
IqReturn ==
    /\ stage = "total_iq"
    /\ iq_loop.pc = "loop"
    /\ ~LoopTest
    /\ iq_loop' = [iq_loop EXCEPT !.pc = "returned"]
    /\ UNCHANGED <<iq_in, iq_decim, iq_kernel, iq_buf, iq_oob, fmVars,
                   audioVars, chainVars, calls, stage, iq_log, streams>>

\* an audio stream (the ramp 1, 2, 3, ...) decimated with any int decim
InitTotalAudio ==
    /\ stage = "total_audio"
    /\ audio_state = AudioDecimStateInit
    /\ audio_decim \in TotalDecims
    /\ audio_gain = kDefaultAudioGain
    /\ audio_src = [pat |-> <<0, 0, 0>>, ramp |-> 1]
    /\ audio_in_all = << >>
    /\ audio_in = << >>
    /\ audio_pre = AudioDecimStateInit
    /\ audio_out = << >>
    /\ audio_out_all = << >>
    /\ audio_resets = << >>
    /\ IqIdle /\ FmIdle /\ ChainIdle /\ ExtIdle
    /\ calls = 0

DownsampleAudioAnyDecim == stage = "total_audio" /\ DownsampleAudio

\* a stream of IQ samples demodulated block by block, from the state a
\* DemodState is constructed with
InitTotalFm ==
    /\ stage = "total_fm"
    /\ demod_state = DemodStateInit
    /\ fm_init = DemodStateInit
    /\ fm_in_all = << >>
    /\ fm_out_all = << >>
    /\ fm_in = << >>
    /\ fm_pre = [state |-> DemodStateInit, out |-> << >>]
    /\ freq_buf = << >>
    /\ fm_op = "none"
    /\ IqIdle /\ AudioIdle /\ ChainIdle /\ ExtIdle
    /\ calls = 0

DemodulateFmAnyBlock == stage = "total_fm" /\ DemodulateFm

DemodulateAmAnyBlock == stage = "total_fm" /\ DemodulateAm

InitTotal == InitTotalIq \/ InitTotalAudio \/ InitTotalFm

NextTotal ==
    \/ IqEnter \/ IqIterate \/ IqReturn
    \/ DownsampleAudioAnyDecim
    \/ DemodulateFmAnyBlock \/ DemodulateAmAnyBlock

SpecTotal == InitTotal /\ [][NextTotal]_vars

\* a call that has been entered runs on: the loop takes its next iteration
\* or returns
SpecTotalLive ==
    SpecTotal /\ WF_vars(IqEnter) /\ WF_vars(IqIterate) /\ WF_vars(IqReturn)

----------------------------------------------------------------------------
(* SpecChain: a raw stream cut into blocks of any size and handed, block   *)
(* by block, to process_block of one PlutoSDR object                       *)

\* the raw streams: patterns that give the decimated samples changing phases
ChainPatterns == {<<1, 0, -1>>, <<1, 1, -1>>, <<0, -1, 1>>, <<1, 1, 0>>}

\* IQ pairs a block may hold after its last whole group
ExtraPairs == {0, 1}

\* elements from+1 .. from+len of the stream that repeats pat
StreamBlock(pat, from, len) == [i \in 1..len |-> pat[((from + i - 1) % 3) + 1]]

\* the object the model's variables hold
Pipeline ==
    PipelineState(iq_buf, freq_buf, demod_state, audio_state, audio_gain,
                  audio_out)

InitChain ==
    /\ raw_src \in ChainPatterns
    /\ raw_all = << >>
    /\ raw_aligned = TRUE
    /\ iq_kernel \in {"scalar", "neon"}
    /\ iq_in = << >>
    /\ iq_decim = kDecimIq
    /\ iq_oob = FALSE
    /\ iq_buf = PipelineInit.iq_buf_
    /\ freq_buf = PipelineInit.freq_buf_
    /\ demod_state = PipelineInit.demod_state_
    /\ audio_state = PipelineInit.audio_state_
    /\ audio_gain = PipelineInit.audio_gain_
    /\ audio_out = PipelineInit.audio_out
    /\ audio_decim = kDecimAudio
    /\ audio_pre = AudioDecimStateInit
    /\ audio_out_all = << >>
    /\ audio_in_all = << >>
    /\ audio_in = << >>
    /\ audio_resets = << >>
    /\ audio_src = [pat |-> <<0, 0, 0>>, ramp |-> 0]
    /\ fm_init = DemodStateInit
    /\ fm_in_all = << >>
    /\ fm_out_all = << >>
    /\ fm_in = << >>
    /\ fm_pre = [state |-> DemodStateInit, out |-> << >>]
    /\ fm_op = "none"
    /\ ExtIdle
    /\ DriverIdle
    /\ stage = "chain"
    /\ calls = 0

ProcessBlock ==
    \E groups \in 0..MaxChainGroups, extra \in ExtraPairs :
        LET len == (groups * kDecimIq + extra) * kIQComponents
            raw == StreamBlock(raw_src, Len(raw_all), len)
            st  == process_block(raw, Pipeline, iq_kernel)
        IN  /\ calls < MaxChainCalls
            /\ iq_in' = raw
            /\ iq_buf' = st.iq_buf_
            /\ freq_buf' = st.freq_buf_
            /\ demod_state' = st.demod_state_
            /\ audio_state' = st.audio_state_
            /\ audio_out' = st.audio_out
            /\ audio_pre' = audio_state
            /\ audio_out_all' = audio_out_all \o st.audio_out
            /\ raw_all' = raw_all \o raw
            /\ raw_aligned' = (raw_aligned /\ extra = 0)
            /\ calls' = calls + 1
            /\ UNCHANGED <<raw_src, iq_kernel, iq_decim, iq_oob, audio_gain,
                           audio_decim, audio_in_all, audio_in, audio_resets,
                           audio_src, fm_init, fm_in_all, fm_out_all, fm_in,
                           fm_pre, fm_op, extVars, driverVars>>

NextChain == ProcessBlock

SpecChain == InitChain /\ [][NextChain]_vars

----------------------------------------------------------------------------
(* Claims about downsample_iq (SpecIq) *)

\* sum of component comp (0 = I, 1 = Q) of the n pairs that start at pair first
RECURSIVE PairSum(_, _, _, _)
PairSum(in, comp, first, n) ==
    IF n = 0 THEN 0
    ELSE in[2 * first + comp + 1] + PairSum(in, comp, first + 1, n - 1)

\* C1: for every N >= 1 and every raw block of P IQ pairs, downsample_iq
\* returns exactly floor(P / N) samples, and output j (0-based) is the
\* unscaled sum of the I components and of the Q components of pairs
\* jN .. jN+N-1 (a sum, never divided by N)
C1_GroupSums ==
    iq_kernel \in CurrentKernels =>
        LET P == Len(iq_in) \div 2
            N == iq_decim
        IN  /\ Len(iq_buf) = P \div N
            /\ \A j \in 0..(Len(iq_buf) - 1) :
                   iq_buf[j + 1] = Complex(PairSum(iq_in, 0, j * N, N),
                                           PairSum(iq_in, 1, j * N, N))

\* C1 witness: a call with N >= 2 that returned two different sums and
\* dropped a trailing incomplete group
C1_Witness ==
    /\ iq_kernel \in CurrentKernels
    /\ iq_decim >= 2
    /\ Len(iq_buf) >= 2
    /\ (Len(iq_in) \div 2) % iq_decim # 0
    /\ iq_buf[1] # iq_buf[2]
    /\ iq_buf[1].re # iq_buf[1].im

\* C4: the vector-accelerated path and the scalar path of downsample_iq
\* return the same number of outputs and, for each output, the same I sum
\* and Q sum, for every N >= 1 and every input block (stated for the calls
\* whose reads stay inside the block, where the result is defined)
C4_KernelsAgree ==
    (iq_kernel # "none" /\ ~iq_oob) =>
        iq_buf = downsample_iq(iq_in, << >>, iq_decim, "scalar", 0).out

\* the same statement for the NEON path of src/src/dsp.cpp alone
NeonMatchesScalar ==
    iq_kernel = "neon" =>
        iq_buf = downsample_iq(iq_in, << >>, iq_decim, "scalar", 0).out

\* every component of the block is at a 16-bit extreme
AllExtreme(in) == \A i \in 1..Len(in) : in[i] \in {-32768, 32767}

\* the exact integer sums of the complete groups of the block
ExactSums(in, N) ==
    [j \in 1..((Len(in) \div 2) \div N) |->
        Complex(PairSum(in, 0, (j - 1) * N, N), PairSum(in, 1, (j - 1) * N, N))]

\* C11: in the scalar and in the vector path of downsample_iq the partial
\* sums never overflow or wrap when every I and Q component is at a 16-bit
\* extreme: each output component is the exact integer sum of its group
\* (8 x 32767 and 8 x (-32768) for N = 8); stated for the calls whose reads
\* stay inside the block
C11_NoOverflow ==
    (iq_kernel # "none" /\ ~iq_oob /\ AllExtreme(iq_in)) =>
        iq_buf = ExactSums(iq_in, iq_decim)

\* the same statement for the two paths of src/src/dsp.cpp alone
NoOverflowCurrent ==
    (iq_kernel \in CurrentKernels /\ AllExtreme(iq_in)) =>
        iq_buf = ExactSums(iq_in, iq_decim)

\* the component-wise sum of a sequence of complex samples
RECURSIVE SumOutputs(_, _)
SumOutputs(q, k) ==
    IF k > Len(q) THEN Complex(0, 0)
    ELSE LET rest == SumOutputs(q, k + 1)
         IN  Complex(q[k].re + rest.re, q[k].im + rest.im)

\* C16: for a block of exactly M IQ pairs and a factor N >= 1 that divides
\* M, the component-wise sum of the M / N outputs of downsample_iq at factor
\* N equals the single output of downsample_iq at factor M
C16_SumsAssociate ==
    LET M == Len(iq_in) \div 2
        N == iq_decim
    IN  (/\ iq_kernel \in CurrentKernels
         /\ Len(iq_in) % 2 = 0
         /\ M >= 1
         /\ M % N = 0) =>
            LET atM == downsample_iq(iq_in, << >>, M, iq_kernel, 0).out
            IN  /\ Len(iq_buf) = M \div N
                /\ Len(atM) = 1
                /\ SumOutputs(iq_buf, 1) = atM[1]

\* C16 witness: 16 pairs decimated by 8 on the vector path, two outputs that
\* differ, with I sums that differ from the Q sums
C16_Witness ==
    /\ iq_kernel = "neon"
    /\ iq_decim = 8
    /\ Len(iq_in) = 32
    /\ Len(iq_buf) = 2
    /\ iq_buf[1] # iq_buf[2]
    /\ iq_buf[1].re # iq_buf[1].im

----------------------------------------------------------------------------
(* Claims about demodulate_fm (SpecFm) *)

Last(q) == q[Len(q)]

\* C2: demodulating a stream in successive calls that share one DemodState
\* gives, concatenated, the outputs and the final state of demodulating the
\* whole stream in one call, for every split and every starting state
C2_FmSplitContinuity ==
    LET whole == demodulate_fm(fm_in_all, << >>, fm_init)
    IN  /\ fm_out_all = whole.out
        /\ demod_state = whole.state

\* C2 witness: a second non-empty call whose first output is a non-zero phase
\* against the sample carried over from the call before
C2_Witness ==
    /\ fm_op = "fm"
    /\ Len(fm_in) >= 1
    /\ Len(fm_in_all) > Len(fm_in)
    /\ fm_pre.state # fm_init
    /\ freq_buf[1] # 0

\* the sample that precedes sample i of the last block
Preceding(i) == IF i = 1 THEN fm_pre.state.prev_iq ELSE fm_in[i - 1]

\* C7: demodulate_fm returns exactly one output per input sample, whatever
\* the output vector held before, and output i is the angle of
\* in[i] * conj(p_i), p_i the carried sample for the first and in[i-1] for
\* the others; previous (1,0), current (0,1) gives +pi/2 (2 units of pi/4)
C7_FmOnePerSample ==
    fm_op = "fm" =>
        /\ Len(freq_buf) = Len(fm_in)
        /\ \A i \in 1..Len(fm_in) :
               /\ freq_buf[i] = PhaseStep(fm_in[i], Preceding(i))
               /\ (Preceding(i) = Complex(1, 0) /\ fm_in[i] = Complex(0, 1))
                      => freq_buf[i] = 2

\* C7 witness: a call on fewer samples than the output vector held, with a
\* quarter-turn phase against the carried sample
C7_Witness ==
    /\ fm_op = "fm"
    /\ Len(fm_in) = 1
    /\ Len(fm_pre.out) > Len(fm_in)
    /\ fm_pre.state.prev_iq = Complex(1, 0)
    /\ fm_in[1] = Complex(0, 1)
    /\ freq_buf = <<2>>

\* prev_iq is the last sample consumed, or the starting value
PrevIsLastSample ==
    demod_state.prev_iq =
        IF fm_in_all = << >> THEN fm_init.prev_iq ELSE Last(fm_in_all)

\* a step that changes the DemodState is a demodulate_fm call on a non-empty
\* block
OnlyFmChangesState ==
    demod_state' # demod_state =>
        /\ fm_op' = "fm"
        /\ fm_in' # << >>
        /\ fm_in_all' = fm_in_all \o fm_in'

\* C10: after any sequence of demodulate_fm calls prev_iq is the last sample
\* of all input processed so far, or the starting value if there was none;
\* an empty call leaves the state unchanged and nothing but demodulate_fm
\* changes it
C10_PrevIqIsLastSample ==
    /\ PrevIsLastSample
    /\ [][PrevIsLastSample' /\ OnlyFmChangesState]_vars

\* C10 witness: the stream started from the default state, two calls later
\* the state holds the last sample of the second block, and an envelope
\* demodulation has run since
C10_Witness ==
    /\ fm_init.prev_iq = Complex(0, 0)
    /\ fm_op = "am"
    /\ Len(fm_in) = 2
    /\ Len(fm_in_all) = 4
    /\ fm_in[1] # fm_in[2]
    /\ demod_state.prev_iq = fm_in[2]

\* sample i of the last block equals the sample before it
SameAsPreceding(i) == fm_in[i] = Preceding(i)

\* sample i of the last block is a zero sample or follows one (the first
\* sample of a stream follows the initial state (0,0))
ZeroInvolved(i) ==
    fm_in[i] = Complex(0, 0) \/ Preceding(i) = Complex(0, 0)

\* C18: demodulate_fm outputs phase 0 whenever there is no phase change or
\* no defined phase: for a sample equal to the carried previous sample, for
\* the first sample of a stream (state (0,0)) whatever that sample is, and
\* for any zero sample and the sample that follows it
C18_ZeroPhase ==
    fm_op = "fm" =>
        \A i \in 1..Len(fm_in) :
            (SameAsPreceding(i) \/ ZeroInvolved(i)) => freq_buf[i] = 0

\* the part of the statement about a sample equal to the one before it
RepeatedSampleZeroPhase ==
    fm_op = "fm" =>
        \A i \in 1..Len(fm_in) : SameAsPreceding(i) => freq_buf[i] = 0

----------------------------------------------------------------------------
(* Claims about downsample_audio (SpecAudio) *)

\* sum of the n elements of q that start at index first (1-based)
RECURSIVE RangeSum(_, _, _)
RangeSum(q, first, n) ==
    IF n = 0 THEN 0 ELSE q[first] + RangeSum(q, first + 1, n - 1)

\* C3: feeding a sample sequence to downsample_audio as any series of blocks
\* (any sizes, including empty) sharing one AudioDecimState yields,
\* concatenated, the outputs and the final state of feeding it in one call;
\* {1,2,3} then {4,5,6} with N = 2, gain 1 gives {1.5} then {3.5, 5.5}
C3_AudioSplitContinuity ==
    LET whole == downsample_audio(audio_in_all, << >>, audio_decim,
                                  AudioDecimStateInit, audio_gain)
    IN  /\ audio_out_all = whole.out
        /\ audio_state = whole.state
        /\ (/\ audio_decim = 2
            /\ audio_gain = <<1, 1>>
            /\ audio_in_all = <<1, 2, 3, 4, 5, 6>>
            /\ audio_in = <<4, 5, 6>>)
               => /\ audio_out = <<(<<7, 2>>), (<<11, 2>>)>>
                  /\ audio_out_all = <<(<<3, 2>>), (<<7, 2>>), (<<11, 2>>)>>

\* C3 witness: the example, {1,2,3} then {4,5,6}, with the 3 carried over
C3_Witness ==
    /\ audio_decim = 2
    /\ audio_gain = <<1, 1>>
    /\ audio_in_all = <<1, 2, 3, 4, 5, 6>>
    /\ audio_in = <<4, 5, 6>>
    /\ audio_pre = [accumulator |-> 3, counter |-> 1]
    /\ audio_out = <<(<<7, 2>>), (<<11, 2>>)>>

\* C6: with counter c on entry, a call on L samples emits floor((c + L) / N)
\* outputs; each is (sum of the N consecutive samples of its window, carried
\* samples included) * (gain / N); accumulator and counter are zero right
\* after each emission; on return counter = (c + L) mod N
C6_AudioWindows ==
    LET N  == audio_decim
        c  == audio_pre.counter
        L  == Len(audio_in)
        \* stream index of the first sample of the window open on entry
        w0 == Len(audio_in_all) - L - c + 1
    IN  /\ Len(audio_out) = (c + L) \div N
        /\ \A k \in 1..Len(audio_out) :
               audio_out[k] =
                   Frac(RangeSum(audio_in_all, w0 + (k - 1) * N, N) * audio_gain[1],
                        audio_gain[2] * N)
        /\ Len(audio_resets) = Len(audio_out)
        /\ \A k \in 1..Len(audio_resets) :
               audio_resets[k] = [accumulator |-> 0, counter |-> 0]
        /\ audio_state.counter = (c + L) % N

\* C6 witness: a call entered with one carried sample that closed two windows
\* and left one sample behind, with a gain other than 1
C6_Witness ==
    /\ audio_decim = 2
    /\ audio_pre.counter = 1
    /\ audio_pre.accumulator # 0
    /\ Len(audio_in) = 4
    /\ Len(audio_out) = 2
    /\ audio_out[1] # audio_out[2]
    /\ audio_state.counter = 1
    /\ audio_gain = <<3, 10>>

\* C8: 0 <= counter < N every time a downsample_audio call has returned
C8_CounterInRange ==
    /\ 0 <= audio_state.counter
    /\ audio_state.counter < audio_decim

\* C8 witness: the counter at N - 1 after a call that also closed a window
C8_Witness ==
    /\ audio_decim = 3
    /\ audio_state.counter = 2
    /\ Len(audio_out) >= 1
    /\ Len(audio_in_all) > Len(audio_in)

\* C9: between calls the accumulator is the sum of exactly the last `counter`
\* samples fed to the stream, and 0 whenever counter is 0
C9_AccumulatorIsPartialSum ==
    LET c == audio_state.counter
    IN  /\ c <= Len(audio_in_all)
        /\ audio_state.accumulator =
               RangeSum(audio_in_all, Len(audio_in_all) - c + 1, c)
        /\ c = 0 => audio_state.accumulator = 0

\* C9 witness: two samples pending after an earlier window was emitted
C9_Witness ==
    /\ audio_state.counter = 2
    /\ Len(audio_out_all) >= 1
    /\ audio_out_all[1] # <<0, 1>>
    /\ audio_state.accumulator # 0
    /\ audio_state.accumulator # Last(audio_in_all)

\* the product of two fractions
FracMul(a, b) == Frac(a[1] * b[1], a[2] * b[2])

\* C17: for the same input, factor N and starting state, each output of
\* downsample_audio with gain G is G times the corresponding output with
\* gain 1 (window sum * G / N); the number of outputs and the resulting
\* counter and accumulator do not depend on G
C17_GainScalesOutput ==
    LET unit == downsample_audio(audio_in, << >>, audio_decim, audio_pre,
                                 <<1, 1>>)
    IN  /\ Len(audio_out) = Len(unit.out)
        /\ \A k \in 1..Len(audio_out) :
               audio_out[k] = FracMul(audio_gain, unit.out[k])
        /\ audio_state = unit.state

\* C17 witness: gain 0.3, a call entered with a window open that emitted two
\* different non-zero outputs and left a sample pending
C17_Witness ==
    /\ audio_gain = <<3, 10>>
    /\ audio_pre.counter >= 1
    /\ Len(audio_out) = 2
    /\ audio_out[1] # <<0, 1>>
    /\ audio_out[2] # <<0, 1>>
    /\ audio_out[1] # audio_out[2]
    /\ audio_state.counter >= 1
    /\ audio_state.accumulator # 0

----------------------------------------------------------------------------
(* Claims about the pipeline (SpecChain) *)

\* the whole stream so far handed to process_block as one block
OneBlock == process_block(raw_all, PipelineInit, iq_kernel)

\* C5 as claimed: feeding a raw IQ stream through downsample_iq,
\* demodulate_fm and downsample_audio as successive blocks of arbitrary
\* sizes yields the same concatenated audio as feeding it as a single block
C5_ChainAnyBlocks == audio_out_all = OneBlock.audio_out

\* C5 as amended: the same, for successive blocks that each hold whole
\* decimation groups only (a multiple of kDecimIq IQ pairs); the states the
\* stream is left with are the same too
C5_ChainWholeGroups ==
    raw_aligned =>
        /\ audio_out_all = OneBlock.audio_out
        /\ demod_state = OneBlock.demod_state_
        /\ audio_state = OneBlock.audio_state_

\* C5 witness: whole-group blocks, the last of them entered with an audio
\* window open and closing it with a non-zero sample
C5_Witness ==
    /\ raw_aligned
    /\ calls >= 2
    /\ audio_pre.counter >= 1
    /\ audio_pre.accumulator # 0
    /\ Len(audio_out) >= 1
    /\ audio_out[1] # <<0, 1>>
    /\ demod_state.prev_iq # Complex(0, 0)

----------------------------------------------------------------------------
(* Claims about demodulate_am (SpecStages) *)

\* the builds of demodulate_am
AmOps == {"am", "am_neon", "am_neon_root"}

\* C12: demodulate_am returns exactly one output per input sample, in input
\* order, each the Euclidean magnitude of its sample ((3,4) gives 5, (0,0)
\* gives 0), for every input length; the vector path (groups of 4, scalar
\* fallback for the remainder) yields the same length and the same values
\* as the scalar path
C12_AmMagnitudes ==
    fm_op \in AmOps =>
        /\ Len(freq_buf) = Len(fm_in)
        /\ \A i \in 1..Len(fm_in) :
               /\ freq_buf[i] = RoundSqrt(fm_in[i].re * fm_in[i].re
                                            + fm_in[i].im * fm_in[i].im, 0)
               /\ fm_in[i] = Complex(3, 4) => freq_buf[i] = 5
               /\ fm_in[i] = Complex(0, 0) => freq_buf[i] = 0
        /\ freq_buf = demodulate_am(fm_in, << >>)

\* the same statement for the two paths of src/src/dsp.cpp alone
AmCurrentPathsAgree ==
    fm_op \in {"am", "am_neon"} =>
        /\ Len(freq_buf) = Len(fm_in)
        /\ freq_buf = demodulate_am(fm_in, << >>)

----------------------------------------------------------------------------
(* Claims about repeated calls on one output vector (SpecStages) *)

\* the number of IQ pairs of a block (a dangling component is no pair)
Pairs(in) == Len(in) \div 2

\* C13: downsample_iq on a block holding fewer than N IQ pairs (the empty
\* block and a lone dangling component included) returns normally with an
\* empty output and signals no failure
C13_ShortBlockEmpty ==
    \A k \in 1..Len(iq_log) :
        Pairs(iq_log[k].in) < iq_log[k].decim =>
            /\ iq_log[k].out = << >>
            /\ ~iq_log[k].oob
            /\ (k = Len(iq_log) => iq_buf = << >>)

\* C13 witness: onto a vector that held a sample, a call on a lone
\* component, then a call on two pairs and a dangling component with N = 9
C13_Witness ==
    /\ Len(iq_log) >= 2
    /\ iq_log[1].pre # << >>
    /\ Len(iq_log[1].in) = 1
    /\ Len(iq_log[2].in) = 5
    /\ iq_log[2].decim = 9
    /\ iq_buf = << >>

\* the block without the pairs and the component behind its last whole group
WholeGroups(in, N) == SubSeq(in, 1, (Pairs(in) \div N) * N * 2)

\* C14: downsample_iq buffers nothing across calls: the pairs of a trailing
\* incomplete group contribute to no output of that call or of a later one,
\* so every call returns the sums of the whole groups of its own block and
\* two calls with equal block and N return equal outputs whatever was
\* processed in between
C14_NothingBuffered ==
    \A k \in 1..Len(iq_log) :
        /\ iq_log[k].out = ExactSums(WholeGroups(iq_log[k].in, iq_log[k].decim),
                                     iq_log[k].decim)
        /\ \A m \in 1..Len(iq_log) :
               (iq_log[m].in = iq_log[k].in /\ iq_log[m].decim = iq_log[k].decim)
                   => iq_log[m].out = iq_log[k].out

\* C14 witness: the same block and factor twice, a trailing incomplete group
\* each time, and a call on another block with trailing pairs in between
C14_Witness ==
    /\ Len(iq_log) = 3
    /\ iq_log[1].in = iq_log[3].in
    /\ iq_log[1].decim = iq_log[3].decim
    /\ Pairs(iq_log[1].in) % iq_log[1].decim # 0
    /\ iq_log[1].out # << >>
    /\ iq_log[2].in # iq_log[1].in
    /\ Pairs(iq_log[2].in) % iq_log[2].decim # 0
    /\ iq_log[2].out # << >>
    /\ iq_log[2].out # iq_log[1].out

\* the demodulate_am build that made the last call, run on the vector out
AmBuild(op, in, out) ==
    CASE op = "am" -> demodulate_am(in, out)
      [] op = "am_neon" -> demodulate_am_neon(in, out)
      [] op = "am_neon_root" -> demodulate_am_neon_root(in, out)

\* C15: after a call to downsample_iq, demodulate_am or downsample_audio the
\* output vector holds exactly the results of that call: what it held before
\* (results of earlier calls included) is removed, also when the call
\* produces no output, and nothing is appended to prior contents
C15_OutputCleared ==
    /\ \A k \in 1..Len(iq_log) :
           /\ iq_log[k].out = downsample_iq(iq_log[k].in, << >>, iq_log[k].decim,
                                            iq_kernel, 0).out
           /\ Len(iq_log[k].out) = Pairs(iq_log[k].in) \div iq_log[k].decim
    /\ (stage = "iq" /\ iq_log # << >>) => iq_buf = Last(iq_log).out
    /\ (stage = "am" /\ fm_op \in AmOps) =>
           freq_buf = AmBuild(fm_op, fm_in, << >>)
    /\ (stage = "am" /\ fm_op \in {"am", "am_neon"}) =>
           Len(freq_buf) = Len(fm_in)
    /\ (stage = "audio" /\ audio_in_all # << >>) =>
           /\ audio_out = downsample_audio(audio_in, << >>, audio_decim,
                                           audio_pre, audio_gain).out
           /\ Len(audio_out) = (audio_pre.counter + Len(audio_in)) \div audio_decim

\* a downsample_iq call with results onto a vector that held something,
\* followed by a call without any
IqClearedTwice ==
    /\ Len(iq_log) >= 2
    /\ iq_log[1].pre # << >>
    /\ iq_log[1].out # << >>
    /\ iq_log[2].out = << >>

\* a demodulate_am call on one sample onto a vector that held two
AmCleared ==
    /\ stage = "am"
    /\ fm_op = "am"
    /\ Len(fm_pre.out) = 2
    /\ Len(fm_in) = 1
    /\ Len(freq_buf) = 1

\* a downsample_audio call without output onto a vector that held results
AudioCleared ==
    /\ stage = "audio"
    /\ Len(audio_out_all) >= 1
    /\ audio_in # << >>
    /\ audio_out = << >>
    /\ audio_state.counter = 1

\* C15 witness: one of the three stages has just removed prior contents
C15_Witness == IqClearedTwice \/ AmCleared \/ AudioCleared

----------------------------------------------------------------------------
(* Claims about independent streams (SpecStreams) *)

\* stream s processed alone: its calls, in order, on its own vectors and
\* states, starting from a fresh stream
RECURSIVE AloneRun(_, _, _)
AloneRun(log, k, st) ==
    IF k > Len(log) THEN st
    ELSE LET r == StageCall(log[k].call, st, st)
         IN  AloneRun(log, k + 1,
                      [st EXCEPT !.freq = r.freq, !.aout = r.aout,
                                 !.demod = r.demod, !.audio = r.audio,
                                 !.fm_out_all = r.fm_out_all,
                                 !.audio_out_all = r.audio_out_all])

\* C19: when two streams each own their DemodState and AudioDecimState,
\* their stage calls may be interleaved in any order and each stream's
\* outputs and final state equal those obtained when that stream is
\* processed alone: the core keeps no process-wide or hidden static state
C19_StreamsIndependent ==
    \A s \in DOMAIN streams :
        LET alone == AloneRun(streams[s].log, 1, StreamInit(s))
        IN  /\ streams[s].fm_out_all = alone.fm_out_all
            /\ streams[s].audio_out_all = alone.audio_out_all
            /\ streams[s].freq = alone.freq
            /\ streams[s].aout = alone.aout
            /\ streams[s].demod = alone.demod
            /\ streams[s].audio = alone.audio

\* C19 witness: stream 1 called, then stream 2, then stream 1 again; both
\* streams demodulated and decimated, and hold different states
C19_Witness ==
    /\ DOMAIN streams = StreamIds
    /\ Len(streams[1].log) = 2
    /\ Len(streams[2].log) = 2
    /\ streams[1].log[1].seq = 0
    /\ streams[2].log[1].seq = 1
    /\ streams[1].log[2].seq = 2
    /\ streams[1].log[1].call.op = "fm"
    /\ streams[2].log[1].call.op = "fm"
    /\ streams[1].log[2].call.op = "audio"
    /\ streams[2].log[2].call.op = "audio"
    /\ streams[1].demod # DemodStateInit
    /\ streams[2].demod # streams[1].demod
    /\ streams[2].audio.counter = 2
    /\ streams[2].audio # streams[1].audio
    /\ streams[2].audio_out_all = << >>
    /\ streams[1].audio_out_all # << >>

----------------------------------------------------------------------------
(* Claims about totality (SpecTotal) *)

\* C20: for every finite input block and every value of the int
\* decimation-factor parameter, each call of downsample_iq and
\* downsample_audio returns normally: no fatal condition, no unbounded loop
\* and no unbounded output growth (a call emits at most one output per IQ
\* pair, or per sample, of its block, and its loop index stays inside the
\* block)
C20_Total ==
    /\ stage = "total_iq" =>
           /\ iq_loop.pc # "fault"
           /\ Len(iq_buf) <= Pairs(iq_in) \/ iq_loop.pc = "idle"
           /\ iq_loop.i <= Len(iq_in)
    /\ stage = "total_audio" => Len(audio_out) <= Len(audio_in)

\* where the division by a zero decim does not trap, the group loop of the
\* scalar path never ends and the vector grows without bound
BoundedWhereNoTrap ==
    (stage = "total_iq" /\ iq_loop.pc # "idle") =>
        Len(iq_buf) <= Pairs(iq_in)

\* downsample_audio alone does return, with a bounded output, for every decim
AudioTotal == stage = "total_audio" => Len(audio_out) <= Len(audio_in)

\* for decim >= 1 the loop followed step by step ends with the vector the
\* function downsample_iq returns
StepsMatchCall ==
    (stage = "total_iq" /\ iq_loop.pc = "returned" /\ iq_decim >= 1) =>
        iq_buf = downsample_iq(iq_in, << >>, iq_decim, iq_kernel, 0).out

\* for decim >= 1 and for negative decim the group loop is bounded
PositiveDecimTotal ==
    (stage = "total_iq" /\ iq_decim # 0) =>
        /\ Len(iq_buf) <= Pairs(iq_in) \/ iq_loop.pc = "idle"
        /\ iq_loop.i <= Len(iq_in)
        /\ iq_loop.pc # "fault"

----------------------------------------------------------------------------
(* Claims about the reads of downsample_iq (SpecIq) *)

\* C27: downsample_iq never reads an element of the input block at an index
\* at or past the block's length, for every N >= 1 and every block length,
\* on the scalar path and on the vector paths: each group's reads stay
\* inside the block
C27_ReadsInsideBlock == iq_kernel \in Kernels => ~iq_oob

\* the same statement for the two paths of src/src/dsp.cpp alone
ReadsInsideCurrent == iq_kernel \in CurrentKernels => ~iq_oob

----------------------------------------------------------------------------
(* Claims about whole-group block sequences (SpecChain) *)

\* the decimated samples the raw stream so far holds
TotalDecimated == Pairs(raw_all) \div kDecimIq

\* C28: when every raw block handed to process_block holds a whole multiple
\* of kDecimIq IQ pairs, the audio of the blocks, concatenated, equals the
\* audio of one call on the concatenated raw stream, and the number of audio
\* samples emitted over the sequence is the total number of decimated
\* samples divided by kDecimAudio, rounded down
C28_WholeBlocksAudio ==
    raw_aligned =>
        /\ audio_out_all = OneBlock.audio_out
        /\ Len(audio_out_all) = TotalDecimated \div kDecimAudio

\* C28 witness: three whole-group blocks, none long enough to fill a window
\* alone; the third closes the window the first two opened and leaves
\* samples in the next one
C28_Witness ==
    /\ raw_aligned
    /\ calls = 3
    /\ Pairs(iq_in) < kDecimIq * kDecimAudio
    /\ TotalDecimated > kDecimAudio
    /\ Len(audio_out_all) = 1
    /\ audio_out = audio_out_all
    /\ audio_state.counter >= 1

----------------------------------------------------------------------------
(* Claims about termination (SpecTotalLive) *)

\* the calls with a decimation factor N >= 1
IqCallPositive == stage = "total_iq" /\ iq_decim >= 1

\* C21: every stage call terminates in a number of steps bounded by its
\* input length, for every N >= 1: the group loop of downsample_iq makes one
\* iteration per output, its index never passes the block's end, and it
\* returns; downsample_iq emits at most one output per IQ pair,
\* demodulate_fm and demodulate_am one per IQ sample, downsample_audio at
\* most one per input sample
C21_CallsTerminate ==
    /\ [](IqCallPositive =>
            /\ iq_loop.pc # "fault"
            /\ iq_loop.i <= Len(iq_in)
            /\ iq_loop.pc # "idle" =>
                   /\ Len(iq_buf) * Stride = iq_loop.i
                   /\ Len(iq_buf) <= Pairs(iq_in))
    /\ [](stage = "total_fm" => Len(freq_buf) <= Len(fm_in))
    /\ []((stage = "total_audio" /\ audio_decim >= 1) =>
            Len(audio_out) <= Len(audio_in))
    /\ (IqCallPositive ~> iq_loop.pc = "returned")

\* C21 witness: a call of downsample_iq that has returned after more than
\* one iteration of its group loop, leaving an incomplete group unread
C21_Witness ==
    /\ IqCallPositive
    /\ iq_loop.pc = "returned"
    /\ Len(iq_buf) >= 2
    /\ iq_loop.i < Len(iq_in)

----------------------------------------------------------------------------
(* SpecFrame: the four stages called in any order on one set of objects:   *)
(* a raw block, the vector of each stage and the two state objects.  Each  *)
(* stage reads the vector of the stage before it.                          *)

MaxFrameCalls == 6

\* the raw blocks the caller may put in the input vector
FrameBlocks ==
    {<<1, 0, 0, 1, -1, -1, 2, 1>>, <<0, -1, 3, 3>>, <<5, 5, 1>>}

\* the decimation factors of the two decimators
FrameDecimIq == 2

FrameDecimAudio == 3

InitFrame ==
    /\ stage = "frame"
    /\ iq_kernel \in CurrentKernels
    /\ iq_in = << >>
    /\ iq_decim = FrameDecimIq
    /\ iq_buf = << >>
    /\ iq_oob = FALSE
    /\ demod_state = DemodStateInit
    /\ fm_init = DemodStateInit
    /\ fm_in_all = << >>
    /\ fm_out_all = << >>
    /\ fm_in = << >>
    /\ fm_pre = [state |-> DemodStateInit, out |-> << >>]
    /\ freq_buf = << >>
    /\ fm_op = "none"
    /\ audio_state = AudioDecimStateInit
    /\ audio_decim = FrameDecimAudio
    /\ audio_gain = kDefaultAudioGain
    /\ audio_src = [pat |-> <<0, 0, 0>>, ramp |-> 0]
    /\ audio_in_all = << >>
    /\ audio_in = << >>
    /\ audio_pre = AudioDecimStateInit
    /\ audio_out = << >>
    /\ audio_out_all = << >>
    /\ audio_resets = << >>
    /\ ChainIdle /\ ExtIdle
    /\ calls = 0

\* what no stage call of this specification writes
FrameRest ==
    <<iq_kernel, iq_decim, iq_oob, fm_init, fm_in_all, fm_out_all, fm_in,
      fm_pre, audio_decim, audio_gain, audio_src, audio_in_all, audio_in,
      audio_pre, audio_out_all, audio_resets, chainVars, extVars>>

\* the caller fills the input vector with a new raw block
FrameRefill ==
    /\ stage = "frame"
    /\ calls < MaxFrameCalls
    /\ iq_in' \in FrameBlocks
    /\ fm_op' = "refill"
    /\ calls' = calls + 1
    /\ UNCHANGED <<iq_buf, freq_buf, audio_out, demod_state, audio_state,
                   FrameRest>>

\* downsample_iq(in, out, decim) on the raw block
FrameDownsampleIq ==
    /\ stage = "frame"
    /\ calls < MaxFrameCalls
    /\ iq_buf' = downsample_iq(iq_in, iq_buf, iq_decim, iq_kernel, 0).out
    /\ fm_op' = "iq"
    /\ calls' = calls + 1
    /\ UNCHANGED <<iq_in, freq_buf, audio_out, demod_state, audio_state,
                   FrameRest>>

\* demodulate_am with the side effect of demodulate_fm on the DemodState
FrameDemodulateAm_prev ==
    /\ stage = "frame"
    /\ calls < MaxFrameCalls
    /\ freq_buf' = demodulate_am(iq_buf, freq_buf)
    /\ demod_state' = demodulate_fm(iq_buf, freq_buf, demod_state).state
    /\ fm_op' = "am"
    /\ calls' = calls + 1
    /\ UNCHANGED <<iq_in, iq_buf, audio_out, audio_state, FrameRest>>

\* demodulate_fm(in, out, state) on the decimated IQ samples
FrameDemodulateFm ==
    LET r == demodulate_fm(iq_buf, freq_buf, demod_state)
    IN  /\ stage = "frame"
        /\ calls < MaxFrameCalls
        /\ freq_buf' = r.out
        /\ demod_state' = r.state
        /\ fm_op' = "fm"
        /\ calls' = calls + 1
        /\ UNCHANGED <<iq_in, iq_buf, audio_out, audio_state, FrameRest>>

\* demodulate_am(in, out) on the decimated IQ samples
FrameDemodulateAm ==
    /\ stage = "frame"
    /\ calls < MaxFrameCalls
    /\ freq_buf' = demodulate_am(iq_buf, freq_buf)
    /\ fm_op' = "am"
    /\ calls' = calls + 1
    /\ UNCHANGED <<iq_in, iq_buf, audio_out, demod_state, audio_state,
                   FrameRest>>

\* downsample_audio(in, out, decim, state, gain) on the demodulated samples
FrameDownsampleAudio ==
    LET r == downsample_audio(freq_buf, audio_out, audio_decim, audio_state,
                              audio_gain)
    IN  /\ stage = "frame"
        /\ calls < MaxFrameCalls
        /\ audio_out' = r.out
        /\ audio_state' = r.state
        /\ fm_op' = "audio"
        /\ calls' = calls + 1
        /\ UNCHANGED <<iq_in, iq_buf, freq_buf, demod_state, FrameRest>>

NextFrame ==
    \/ FrameRefill
    \/ FrameDownsampleIq
    \/ FrameDemodulateFm
    \/ FrameDemodulateAm
    \/ FrameDownsampleAudio

SpecFrame == InitFrame /\ [][NextFrame]_vars

----------------------------------------------------------------------------
(* Claims about what a stage call writes (SpecFrame) *)

\* the objects of the other stages as seen from each stage call
IqFrame == UNCHANGED <<iq_in, freq_buf, audio_out, demod_state, audio_state>>

FmFrame == UNCHANGED <<iq_in, iq_buf, audio_out, audio_state>>

AmFrame == UNCHANGED <<iq_in, iq_buf, audio_out, demod_state, audio_state>>

AudioFrame == UNCHANGED <<iq_in, iq_buf, freq_buf, demod_state>>

\* C22: each stage touches only its own carried state: downsample_iq and
\* demodulate_am change nothing but their output vector, demodulate_fm
\* changes only its output and the DemodState passed to it,
\* downsample_audio only its output and the AudioDecimState passed to it;
\* no stage call changes its input block, another stage's vector or another
\* stage's state
C22_StageFrames ==
    [][/\ fm_op' = "iq" => IqFrame
       /\ fm_op' = "fm" => FmFrame
       /\ fm_op' = "am" => AmFrame
       /\ fm_op' = "audio" => AudioFrame]_vars

\* C22 witness: demodulate_am has just run on a non-empty block, after
\* demodulate_fm and downsample_audio had left their state objects holding
\* a previous sample and an open window
C22_Witness ==
    /\ stage = "frame"
    /\ fm_op = "am"
    /\ iq_buf # << >>
    /\ freq_buf # << >>
    /\ demod_state # DemodStateInit
    /\ audio_state.counter = 2
    /\ audio_state.accumulator # 0

----------------------------------------------------------------------------
(* UdpSender *)

\* a unique_ptr<int, SocketDeleter>: << >> is the null pointer, <<v>> points
\* to an int holding v
NullFd == << >>

\* inet_pton(AF_INET, ...) on a dotted address given as its fields: 1 for
\* four fields that each fit an octet, otherwise 0
inet_pton(ip) ==
    IF Len(ip) = 4 /\ \A i \in 1..4 : ip[i] \in 0..255 THEN 1 ELSE 0

\* htons(static_cast<uint16_t>(port)), as the port number it denotes
htons(port) == port % 65536

\* a deleter that frees the int and leaves the descriptor open
SocketDeleter_leak(closes, fd) == closes

\* SocketDeleter::operator()(int* fd): close(*fd) when *fd >= 0, delete fd.
\* closes lists the descriptors handed to close(), in order.
SocketDeleter(closes, fd) ==
    IF fd # NullFd /\ fd[1] >= 0 THEN Append(closes, fd[1]) ELSE closes

\* a default-constructed UdpSender; created counts the descriptors socket()
\* has returned, which are numbered in the order of their creation
UdpSenderDefault ==
    [alive |-> TRUE, sock_fd |-> NullFd,
     addr |-> [ip |-> <<0, 0, 0, 0>>, port |-> 0],
     sent |-> << >>, created |-> 0, closes |-> << >>, last |-> "none"]

\* UdpSender::is_open()
is_open(u) == u.sock_fd # NullFd /\ u.sock_fd[1] >= 0

\* UdpSender::open(ip, port); socket_ok tells whether socket() succeeds.
\* last records how the call ended: "returned", or the exception thrown.
open(u, ip, port, socket_ok) ==
    LET fd == IF socket_ok THEN u.created + 1 ELSE -1
        u1 == [u EXCEPT !.sock_fd = <<fd>>,
                        !.created = IF socket_ok THEN @ + 1 ELSE @,
                        !.closes = SocketDeleter(@, u.sock_fd)]
        u2 == [u1 EXCEPT !.addr = [ip |-> <<0, 0, 0, 0>>,
                                   port |-> htons(port)]]
    IN  IF fd < 0
        THEN [u1 EXCEPT !.last = "Failed to create UDP socket"]
        ELSE IF inet_pton(ip) # 1
        THEN [u2 EXCEPT !.last = "Invalid IPv4 address"]
        ELSE [u2 EXCEPT !.addr.ip = ip, !.last = "returned"]

\* UdpSender::send_bytes_internal(data, len): one sendto() on the held
\* descriptor; closed tells whether that descriptor had been closed before
send_bytes_internal(u, data) ==
    IF ~is_open(u) \/ Len(data) = 0 THEN u
    ELSE [u EXCEPT !.sent =
              Append(@, [fd |-> u.sock_fd[1], data |-> data, addr |-> u.addr,
                         closed |-> \E i \in DOMAIN u.closes :
                                        u.closes[i] = u.sock_fd[1]])]

\* UdpSender::send(vec)
send(u, vec) ==
    IF ~is_open(u) \/ vec = << >> THEN u ELSE send_bytes_internal(u, vec)

\* the implicit destructor: the unique_ptr member runs its deleter
UdpSenderDestroy(u) ==
    [u EXCEPT !.alive = FALSE, !.sock_fd = NullFd,
              !.closes = SocketDeleter(@, u.sock_fd)]

----------------------------------------------------------------------------
(* SpecUdp: one UdpSender, default-constructed, then opened, re-opened,    *)
(* used and destroyed in any order                                         *)

MaxUdpOps == 4

\* destination addresses: unicast, multicast, a field out of range, a field
\* missing
UdpAddresses == {<<127, 0, 0, 1>>, <<224, 1, 1, 1>>, <<10, 0, 0, 256>>, <<10, 0, 1>>}

UdpPorts == {5000}

\* the vectors handed to send
UdpVectors == {<< >>, <<(<<1, 2>>)>>}

InitUdp ==
    /\ stage = "udp"
    /\ udp = UdpSenderDefault
    /\ drv = [pc |-> "none"]
    /\ raw_src = <<0, 0, 0>>
    /\ raw_all = << >>
    /\ raw_aligned = TRUE
    /\ IqIdle /\ FmIdle /\ AudioIdle /\ ExtIdle
    /\ calls = 0

\* what the sender's operations leave alone
UdpRest ==
    <<iqVars, fmVars, audioVars, raw_src, raw_all, raw_aligned, drv, extVars>>

UdpOpen ==
    \E ip \in UdpAddresses, port \in UdpPorts, socket_ok \in BOOLEAN :
        /\ stage = "udp"
        /\ udp.alive
        /\ calls < MaxUdpOps
        /\ udp' = open(udp, ip, port, socket_ok)
        /\ calls' = calls + 1
        /\ UNCHANGED UdpRest

UdpSend ==
    \E vec \in UdpVectors :
        /\ stage = "udp"
        /\ udp.alive
        /\ calls < MaxUdpOps
        /\ udp' = send(udp, vec)
        /\ calls' = calls + 1
        /\ UNCHANGED UdpRest

UdpDestroy ==
    /\ stage = "udp"
    /\ udp.alive
    /\ udp' = UdpSenderDestroy(udp)
    /\ UNCHANGED <<calls, UdpRest>>

NextUdp == UdpOpen \/ UdpSend \/ UdpDestroy

SpecUdp == InitUdp /\ [][NextUdp]_vars

----------------------------------------------------------------------------
(* Claims about UdpSender (SpecUdp) *)

\* C29: UdpSender::is_open() returns true only if the socket is open and
\* ready to send: it is false on a default-constructed sender, false after
\* an open() that failed by throwing (socket creation failure or invalid
\* IPv4 address), and true after an open() that returned normally
C29_IsOpenMeansReady ==
    (stage = "udp" /\ udp.alive) =>
        is_open(udp) = (udp.last = "returned")

\* what the code does give: is_open() is false on a default-constructed
\* sender and after a failed socket(), true after every open() in which
\* socket() succeeded
IsOpenMeansSocketCreated ==
    (stage = "udp" /\ udp.alive) =>
        is_open(udp) = (udp.last \in {"returned", "Invalid IPv4 address"})

\* the number of close() calls made on descriptor fd
CloseCount(u, fd) == Cardinality({i \in DOMAIN u.closes : u.closes[i] = fd})

\* the descriptors created and not closed
Held(u) == {fd \in 1..u.created : CloseCount(u, fd) = 0}

\* C30: every descriptor created by UdpSender::open() is closed exactly
\* once, when open() is called again or when the sender is destroyed: after
\* any sequence of open, send and destroy no descriptor has been closed
\* twice, the only descriptor still open is the one the sender holds (at
\* most one, none leaked), every descriptor is closed once the sender is
\* destroyed, and no send used a descriptor that had been closed
C30_DescriptorsClosedOnce ==
    stage = "udp" =>
        /\ \A fd \in 1..udp.created : CloseCount(udp, fd) <= 1
        /\ Held(udp) = IF is_open(udp) THEN {udp.sock_fd[1]} ELSE {}
        /\ Cardinality(Held(udp)) <= 1
        /\ ~udp.alive => \A fd \in 1..udp.created : CloseCount(udp, fd) = 1
        /\ \A i \in DOMAIN udp.sent : ~udp.sent[i].closed

\* C30 witness: a sender opened, used, re-opened, used again and destroyed
C30_Witness ==
    /\ stage = "udp"
    /\ ~udp.alive
    /\ udp.created = 2
    /\ udp.closes = <<1, 2>>
    /\ Len(udp.sent) = 2
    /\ udp.sent[1].fd = 1
    /\ udp.sent[2].fd = 2

----------------------------------------------------------------------------
(* PlutoSDR::run and PlutoSDR::output_audio *)

\* the values of enum class DemodulationMode
DemodulationMode == {"FM", "AM"}

\* the stages of one pass of the loop of run(), in the order of the code
DriverCycle ==
    <<"refill", "downsample_iq", "demodulate", "downsample_audio",
      "output_audio">>

\* output_audio handing the block to both transports
output_audio_both(d, u, audio) ==
    IF audio = << >> THEN [drv |-> d, udp |-> u]
    ELSE [drv |-> [d EXCEPT !.stdout = @ \o audio], udp |-> send(u, audio)]

\* PlutoSDR::output_audio(audio) on the object d and its sender u: nothing
\* for an empty block, else one datagram, or the samples' bytes on stdout
output_audio(d, u, audio) ==
    IF audio = << >> THEN [drv |-> d, udp |-> u]
    ELSE IF d.use_udp_ /\ is_open(u)
    THEN [drv |-> d, udp |-> send(u, audio)]
    ELSE [drv |-> [d EXCEPT !.stdout = @ \o audio], udp |-> u]

----------------------------------------------------------------------------
(* SpecDriver: a PlutoSDR object, constructed, in run(): the loop followed *)
(* stage by stage until a refill fails                                     *)

MaxDriverBlocks == 3

\* whole groups of kDecimIq pairs a refilled buffer may hold
DriverGroups == {2, 3, 5}

DriverPatterns == {<<1, 0, -1>>, <<1, 1, -1>>}

\* the destination the command line gives when it gives one
DriverAddress == <<127, 0, 0, 1>>

DriverPort == 5000

\* the object after its constructor returned, and run() before its loop.
\* has_ip, has_port: the optional arguments that have a value; mode: the
\* DemodulationMode the configuration selects, which PlutoSDR has no
\* parameter or member for
InitDriver ==
    /\ stage = "driver"
    /\ \E has_ip \in BOOLEAN, has_port \in BOOLEAN, mode \in DemodulationMode :
           /\ drv = [pc |-> "refill", mode |-> mode,
                     has_ip |-> has_ip, has_port |-> has_port,
                     use_udp_ |-> has_ip /\ has_port,
                     refills |-> 0, trace |-> << >>, pre |-> PipelineInit,
                     blocks |-> << >>, stdout |-> << >>]
           /\ udp = IF has_ip /\ has_port
                    THEN open(UdpSenderDefault, DriverAddress, DriverPort, TRUE)
                    ELSE UdpSenderDefault
    /\ raw_src \in DriverPatterns
    /\ raw_all = << >>
    /\ raw_aligned = TRUE
    /\ iq_kernel \in CurrentKernels
    /\ iq_in = << >>
    /\ iq_decim = kDecimIq
    /\ iq_oob = FALSE
    /\ iq_buf = PipelineInit.iq_buf_
    /\ freq_buf = PipelineInit.freq_buf_
    /\ demod_state = PipelineInit.demod_state_
    /\ audio_state = PipelineInit.audio_state_
    /\ audio_gain = PipelineInit.audio_gain_
    /\ audio_out = PipelineInit.audio_out
    /\ audio_decim = kDecimAudio
    /\ audio_pre = AudioDecimStateInit
    /\ audio_out_all = << >>
    /\ audio_in_all = << >>
    /\ audio_in = << >>
    /\ audio_resets = << >>
    /\ audio_src = [pat |-> <<0, 0, 0>>, ramp |-> 0]
    /\ fm_init = DemodStateInit
    /\ fm_in_all = << >>
    /\ fm_out_all = << >>
    /\ fm_in = << >>
    /\ fm_pre = [state |-> DemodStateInit, out |-> << >>]
    /\ fm_op = "none"
    /\ ExtIdle
    /\ calls = 0

\* what run() never writes
DriverRest ==
    <<iq_kernel, iq_decim, iq_oob, fm_init, fm_in_all, fm_in, fm_op,
      audio_decim, audio_gain, audio_src, audio_in_all, audio_in, audio_pre,
      audio_out_all, audio_resets, raw_src, raw_aligned, calls, extVars>>

\* the loop position after the stage just run
DriverStep(d, pc, done) == [d EXCEPT !.pc = pc, !.trace = Append(@, done)]

\* iio_buffer_refill succeeds: raw spans the new buffer
DriverRefill ==
    \E groups \in DriverGroups :
        LET raw == StreamBlock(raw_src, Len(raw_all),
                               groups * kDecimIq * kIQComponents)
        IN  /\ stage = "driver"
            /\ drv.pc = "refill"
            /\ drv.refills < MaxDriverBlocks
            /\ iq_in' = raw
            /\ raw_all' = raw_all \o raw
            /\ drv' = [DriverStep(drv, "iq", "refill")
                          EXCEPT !.refills = @ + 1, !.pre = Pipeline]
            /\ UNCHANGED <<iq_buf, freq_buf, demod_state, fm_pre, fm_out_all,
                           audio_state, audio_out, udp, DriverRest>>

\* a loop exit that first emits the open window's sum
DriverRefillFails_flush ==
    LET o == output_audio(drv, udp, <<Frac(audio_state.accumulator, 1)>>)
    IN  /\ stage = "driver"
        /\ drv.pc = "refill"
        /\ drv' = [o.drv EXCEPT !.pc = "stopped"]
        /\ udp' = o.udp
        /\ UNCHANGED <<iq_in, raw_all, iq_buf, freq_buf, demod_state, fm_pre,
                       fm_out_all, audio_state, audio_out, DriverRest>>

\* iio_buffer_refill fails: break, and run() returns
DriverRefillFails ==
    /\ stage = "driver"
    /\ drv.pc = "refill"
    /\ drv' = [drv EXCEPT !.pc = "stopped"]
    /\ UNCHANGED <<iq_in, raw_all, iq_buf, freq_buf, demod_state, fm_pre,
                   fm_out_all, audio_state, audio_out, udp, DriverRest>>

\* process_block, first statement
DriverDownsampleIq ==
    /\ stage = "driver"
    /\ drv.pc = "iq"
    /\ iq_buf' = downsample_iq(iq_in, iq_buf, kDecimIq, iq_kernel, 0).out
    /\ drv' = DriverStep(drv, "demod", "downsample_iq")
    /\ UNCHANGED <<iq_in, raw_all, freq_buf, demod_state, fm_pre, fm_out_all,
                   audio_state, audio_out, udp, DriverRest>>

\* the second statement with a DemodState local to the block
DriverDemodulate_fresh ==
    LET r == demodulate_fm(iq_buf, freq_buf, DemodStateInit)
    IN  /\ stage = "driver"
        /\ drv.pc = "demod"
        /\ freq_buf' = r.out
        /\ demod_state' = r.state
        /\ fm_pre' = [state |-> demod_state, out |-> freq_buf]
        /\ fm_out_all' = fm_out_all \o r.out
        /\ drv' = DriverStep(drv, "audio", "demodulate")
        /\ UNCHANGED <<iq_in, raw_all, iq_buf, audio_state, audio_out, udp,
                       DriverRest>>

\* process_block, second statement: dsp::demodulate, the phase-difference
\* demodulator, whatever drv.mode is
DriverDemodulate ==
    LET r == demodulate_fm(iq_buf, freq_buf, demod_state)
    IN  /\ stage = "driver"
        /\ drv.pc = "demod"
        /\ freq_buf' = r.out
        /\ demod_state' = r.state
        /\ fm_pre' = [state |-> demod_state, out |-> freq_buf]
        /\ fm_out_all' = fm_out_all \o r.out
        /\ drv' = DriverStep(drv, "audio", "demodulate")
        /\ UNCHANGED <<iq_in, raw_all, iq_buf, audio_state, audio_out, udp,
                       DriverRest>>

\* process_block, third statement
DriverDownsampleAudio ==
    LET r == downsample_audio(freq_buf, audio_out, kDecimAudio, audio_state,
                              audio_gain)
    IN  /\ stage = "driver"
        /\ drv.pc = "audio"
        /\ audio_out' = r.out
        /\ audio_state' = r.state
        /\ drv' = DriverStep(drv, "output", "downsample_audio")
        /\ UNCHANGED <<iq_in, raw_all, iq_buf, freq_buf, demod_state, fm_pre,
                       fm_out_all, udp, DriverRest>>

\* output_audio(audio_out), then back to the head of the loop
DriverOutputAudio ==
    LET o == output_audio(drv, udp, audio_out)
    IN  /\ stage = "driver"
        /\ drv.pc = "output"
        /\ drv' = [DriverStep(o.drv, "refill", "output_audio")
                      EXCEPT !.blocks = Append(@, audio_out)]
        /\ udp' = o.udp
        /\ UNCHANGED <<iq_in, raw_all, iq_buf, freq_buf, demod_state, fm_pre,
                       fm_out_all, audio_state, audio_out, DriverRest>>

NextDriver ==
    \/ DriverRefill
    \/ DriverRefillFails
    \/ DriverDownsampleIq
    \/ DriverDemodulate
    \/ DriverDownsampleAudio
    \/ DriverOutputAudio

SpecDriver == InitDriver /\ [][NextDriver]_vars

----------------------------------------------------------------------------
(* Claims about the driver loop (SpecDriver) *)

\* the loop has completed a pass and stands at its head, or has left
BetweenBlocks ==
    stage = "driver" /\ drv.pc \in {"refill", "stopped"} /\ drv.refills >= 1

\* C23: for each successfully refilled raw block the driver runs IQ
\* decimation, then demodulation, then audio decimation, then audio output,
\* each exactly once and in that order, finishing all of them before the
\* next refill, and it passes the same DemodState and AudioDecimState
\* objects to every block: the stages run so far repeat the cycle refill,
\* downsample_iq, demodulate, downsample_audio, output_audio, and after each
\* pass the object's vectors and states are those of process_block applied
\* to the block and to the object as the previous pass left it
C23_StagesInOrder ==
    stage = "driver" =>
        /\ \A i \in DOMAIN drv.trace : drv.trace[i] = DriverCycle[((i - 1) % 5) + 1]
        /\ Len(drv.trace) =
               CASE drv.pc = "iq" -> 5 * drv.refills - 4
                 [] drv.pc = "demod" -> 5 * drv.refills - 3
                 [] drv.pc = "audio" -> 5 * drv.refills - 2
                 [] drv.pc = "output" -> 5 * drv.refills - 1
                 [] OTHER -> 5 * drv.refills
        /\ BetweenBlocks =>
               /\ Pipeline = process_block(iq_in, drv.pre, iq_kernel)
               /\ drv.blocks[drv.refills] = audio_out
               /\ Len(drv.blocks) = drv.refills

\* C23 witness: the third pass completed, entered with a previous sample
\* and an open audio window left by the passes before it
C23_Witness ==
    /\ BetweenBlocks
    /\ drv.refills = 3
    /\ drv.pre.demod_state_ # DemodStateInit
    /\ drv.pre.audio_state_.counter >= 1
    /\ drv.pre.audio_state_.accumulator # 0
    /\ audio_out # << >>

\* the demodulator has just run on a non-empty block
Demodulated == stage = "driver" /\ drv.pc = "audio" /\ iq_buf # << >>

\* C24: the demodulation mode selector determines the demodulator used in
\* the pipeline: for each block exactly one demodulator runs between IQ
\* decimation and audio decimation, the AM envelope demodulator when the
\* mode is AM and the FM phase-difference demodulator when the mode is FM
C24_ModeSelectsDemodulator ==
    Demodulated =>
        /\ drv.mode = "AM" => freq_buf = demodulate_am(iq_buf, fm_pre.out)
        /\ drv.mode = "FM" =>
               freq_buf = demodulate_fm(iq_buf, fm_pre.out, fm_pre.state).out

\* what the driver does: the phase-difference demodulator for every mode
AlwaysPhaseDifference ==
    Demodulated =>
        /\ freq_buf = demodulate_fm(iq_buf, fm_pre.out, fm_pre.state).out
        /\ demod_state = demodulate_fm(iq_buf, fm_pre.out, fm_pre.state).state

\* the samples of the datagrams, in the order sent
RECURSIVE Datagrams(_, _)
Datagrams(sent, i) ==
    IF i > Len(sent) THEN << >> ELSE sent[i].data \o Datagrams(sent, i + 1)

\* every audio sample the driver has emitted, on either transport
Emitted == drv.stdout \o Datagrams(udp.sent, 1)

\* C25: when the stream stops (a buffer refill fails) the driver loop exits
\* without emitting anything for a partially accumulated audio window: no
\* flush is performed, the samples of the open window stay in the
\* AudioDecimState, and every audio sample emitted before the stop is the
\* result of a complete window of kDecimAudio demodulated samples
C25_NoFlushOnStop ==
    (stage = "driver" /\ drv.pc = "stopped") =>
        /\ Emitted = downsample_audio(fm_out_all, << >>, kDecimAudio,
                                      AudioDecimStateInit, audio_gain).out
        /\ Len(Emitted) = Len(fm_out_all) \div kDecimAudio
        /\ audio_state.counter = Len(fm_out_all) % kDecimAudio

\* C25 witness: the loop has left with audio emitted and an open window of
\* non-zero sum left behind
C25_Witness ==
    /\ stage = "driver"
    /\ drv.pc = "stopped"
    /\ Emitted # << >>
    /\ audio_state.counter >= 1
    /\ audio_state.accumulator # 0

\* the non-empty blocks among the first n handed to output_audio
RECURSIVE NonEmpty(_, _)
NonEmpty(blocks, n) ==
    IF n = 0 THEN << >>
    ELSE IF blocks[n] = << >> THEN NonEmpty(blocks, n - 1)
    ELSE Append(NonEmpty(blocks, n - 1), blocks[n])

\* the samples of the first n blocks, concatenated
RECURSIVE Flat(_, _)
Flat(blocks, n) ==
    IF n = 0 THEN << >> ELSE Flat(blocks, n - 1) \o blocks[n]

\* C26: each non-empty audio block is handed, unmodified and in block
\* order, to exactly one transport: the UDP socket when both a destination
\* address and a port were configured and the socket is open, otherwise
\* standard output; an empty audio block produces no output on either
C26_OneTransport ==
    stage = "driver" =>
        LET blocks == NonEmpty(drv.blocks, Len(drv.blocks))
        IN  IF drv.has_ip /\ drv.has_port /\ is_open(udp)
            THEN /\ [i \in DOMAIN udp.sent |-> udp.sent[i].data] = blocks
                 /\ drv.stdout = << >>
            ELSE /\ drv.stdout = Flat(blocks, Len(blocks))
                 /\ udp.sent = << >>

\* C26 witness: three blocks handed to output_audio of an object with a
\* destination, the first of them empty, the other two sent as datagrams
C26_Witness ==
    /\ stage = "driver"
    /\ drv.has_ip /\ drv.has_port
    /\ Len(drv.blocks) = 3
    /\ drv.blocks[1] = << >>
    /\ Len(udp.sent) = 2
    /\ udp.sent[1].data # udp.sent[2].data

\* the same for an object given a port and no address: standard output
StdoutWitness ==
    /\ stage = "driver"
    /\ ~drv.has_ip /\ drv.has_port
    /\ Len(drv.blocks) = 3
    /\ drv.blocks[1] = << >>
    /\ Len(drv.stdout) >= 2

====
